---- MODULE Spec2Model ----
(***************************************************************************)
(* A model of the user-facing accessor of python-lenses (lenses/ui.py):    *)
(* the class Lens, which pairs a state with an optic, its binding rules,   *)
(* its composition methods and its query methods.                          *)
(*                                                                         *)
(* Python objects of class Lens live in `heap`, a sequence of records      *)
(* [state, lens]; a reference to an accessor is its index.  Every method   *)
(* is an operator from (heap, self, arguments) to a result record          *)
(* [heap, exc, ret, obj]: the heap after the call, the exception raised    *)
(* ("none" when the call returns), the plain value returned and the index  *)
(* of the accessor returned (0 when the call returns no accessor).         *)
(*                                                                         *)
(* Values are immutable records, except in the runs of call and call_mut,  *)
(* where identity matters: there `mem` is the store of the mutable objects *)
(* (lists and Stack instances), a sequence of cells whose items are        *)
(* references Ref(i) or plain values; elsewhere `mem` is empty.  `last`    *)
(* records the call just made: its name, receiver, arguments and outcome.  *)
(*                                                                         *)
(* Spec runs the binding and composition methods, SpecQ the queries,       *)
(* SpecL two-call programs for the optic laws, SpecA the three-way         *)
(* composition, SpecM call_mut, SpecO the operators, SpecF flip, SpecC     *)
(* add_lens on two accessors, SpecD the attribute dispatch, SpecK the      *)
(* kinds of composites, SpecE the exceptions of the caller, SpecP the      *)
(* prisms and filter_, SpecB binding to falsy targets, SpecS the state     *)
(* keyword, SpecU calls on unbound accessors and SpecG the descriptor      *)
(* protocol.                                                               *)
(*                                                                         *)
(* The module lenses.optics (LensLike and its subclasses) is imported by   *)
(* ui.py but is not part of the sources at hand; its operations            *)
(* (compose, to_list_of, over, set, view, re, from_) are modelled from     *)
(* the specification and from the doctests of ui.py.                       *)
(***************************************************************************)
EXTENDS Integers, Sequences, FiniteSets, TLC

VARIABLES heap, last, mem

vars == <<heap, last, mem>>

(***************************************************************************)
(* Bounds of the model.                                                    *)
(***************************************************************************)
MaxInt == 1
MaxLen == 2
MaxChain == 2
MaxObjs == 2

(***************************************************************************)
(* Python values.  Every value is a record of the same shape so that any   *)
(* two values can be compared: t is the type name, n the number of an int, *)
(* items the elements of a list or the content of a Just.                  *)
(***************************************************************************)
PyNone == [t |-> "NoneType", n |-> 0, items |-> <<>>]

PyInt(k) == [t |-> "int", n |-> k, items |-> <<>>]

PyList(xs) == [t |-> "list", n |-> 0, items |-> xs]

Just(x) == [t |-> "Just", n |-> 0, items |-> <<x>>]

Nothing == [t |-> "Nothing", n |-> 0, items |-> <<>>]

\* the decimal string of k: PyStr(5) is '5'
PyStr(k) == [t |-> "str", n |-> k, items |-> <<>>]

PyBool(b) == [t |-> "bool", n |-> IF b THEN 1 ELSE 0, items |-> <<>>]

\* the empty string, which is the decimal string of no number
EmptyStr == [t |-> "str", n |-> 0 - 1, items |-> <<>>]

PyTuple(xs) == [t |-> "tuple", n |-> 0, items |-> xs]

\* the singleton a binary special method returns for an operand it does not
\* handle
NotImplemented == [t |-> "NotImplementedType", n |-> 0, items |-> <<>>]

\* a dict is the sequence of its (key, value) tuples, by ascending key, so
\* that two dicts with the same items are equal
PyDict(kvs) == [t |-> "dict", n |-> 0, items |-> kvs]

DictHas(d, k) == \E i \in 1..Len(d.items) : d.items[i].items[1] = PyInt(k)

DictGet(d, k) ==
    d.items[CHOOSE i \in 1..Len(d.items) : d.items[i].items[1] = PyInt(k)].items[2]

\* a copy of d with d[k] = v
DictSet(d, k, v) ==
    PyDict(SelectSeq(d.items, LAMBDA e : e.items[1].n < k)
              \o <<PyTuple(<<PyInt(k), v>>)>>
              \o SelectSeq(d.items, LAMBDA e : e.items[1].n > k))

SeqsUpTo(S, n) == UNION {[1..k -> S] : k \in 0..n}

Ints == {PyInt(k) : k \in 0..MaxInt}

Lists == {PyList(xs) : xs \in SeqsUpTo(Ints, MaxLen)}

Maybes == {Nothing} \cup {Just(x) : x \in Ints}

\* the values an accessor is bound to, and None
States == Ints \cup Lists \cup Maybes

PyValues == States \cup {PyNone}

(***************************************************************************)
(* Results of the optics' operations: an exception name or a value.        *)
(***************************************************************************)
Ok(v) == [exc |-> "none", val |-> v]

Raise(e) == [exc |-> e, val |-> PyNone]

(***************************************************************************)
(* Functions passed to modify.                                             *)
(***************************************************************************)
Identity == [fn |-> "identity", c |-> PyNone]

Const(v) == [fn |-> "const", c |-> v]

Succ == [fn |-> "succ", c |-> PyNone]

\* lambda n: n - 1
Pred == [fn |-> "pred", c |-> PyNone]

\* lambda n: -n
Neg == [fn |-> "neg", c |-> PyNone]

\* the constructor int
IntOf == [fn |-> "int", c |-> PyNone]

\* the builtin bool, a predicate
Bool == [fn |-> "bool", c |-> PyNone]

\* the truth value of a
Truth(a) ==
    CASE a.t \in {"int", "bool"} -> a.n # 0
      [] a.t \in {"list", "tuple", "dict"} -> a.items # <<>>
      [] a.t = "NoneType" -> FALSE
      [] a.t = "str" -> a # EmptyStr
      [] OTHER -> TRUE

\* a function of the caller that raises the exception e
Raising(e) == [fn |-> "raise", c |-> PyNone, name |-> e]

(***************************************************************************)
(* Special methods and operators.  CallDunder is what                      *)
(* the call getattr(a, name) of the arguments does for an int or a list    *)
(* of ints a;                                                              *)
(* OperatorOn is what the operator of that name does with the same         *)
(* operands: `a + x` for __add__, `x + a` for __radd__, `-a` for __neg__.  *)
(***************************************************************************)
transparent_dunders ==
    {"__lt__", "__le__", "__eq__", "__ne__", "__gt__", "__ge__",
     "__add__", "__sub__", "__mul__", "__matmul__", "__truediv__",
     "__floordiv__", "__div__", "__mod__", "__divmod__", "__pow__",
     "__lshift__", "__rshift__", "__and__", "__xor__", "__or__",
     "__radd__", "__rsub__", "__rmul__", "__rmatmul__", "__rtruediv__",
     "__rfloordiv__", "__rdiv__", "__rmod__", "__rdivmod__", "__rpow__",
     "__rlshift__", "__rrshift__", "__rand__", "__rxor__", "__ror__",
     "__neg__", "__pos__", "__invert__"}

\* the augmented arithmetic methods
InplaceDunders ==
    {"__iadd__", "__isub__", "__imul__", "__imatmul__", "__itruediv__",
     "__ifloordiv__", "__imod__", "__ipow__", "__ilshift__", "__irshift__",
     "__iand__", "__ixor__", "__ior__"}

Comparisons == {"__lt__", "__le__", "__eq__", "__ne__", "__gt__", "__ge__"}

Arithmetic == {"__add__", "__sub__", "__mul__"}

Reflected == {"__radd__", "__rsub__", "__rmul__"}

Unary == {"__neg__", "__pos__", "__invert__"}

\* the special methods whose results are modelled
ModelledDunders == Comparisons \cup Arithmetic \cup Reflected \cup Unary

RECURSIVE LexOrder(_, _)
LexOrder(xs, ys) ==
    IF xs = <<>> THEN (IF ys = <<>> THEN 0 ELSE -1)
    ELSE IF ys = <<>> THEN 1
    ELSE IF Head(xs).n < Head(ys).n THEN -1
    ELSE IF Head(xs).n > Head(ys).n THEN 1
    ELSE LexOrder(Tail(xs), Tail(ys))

\* -1, 0 or 1: how two ints, or two lists of ints, compare
Order(a, x) ==
    IF a.t = "int" THEN (IF a.n < x.n THEN -1 ELSE IF a.n = x.n THEN 0 ELSE 1)
    ELSE LexOrder(a.items, x.items)

Compare(name, o) ==
    CASE name = "__lt__" -> o < 0
      [] name = "__le__" -> o <= 0
      [] name = "__eq__" -> o = 0
      [] name = "__ne__" -> o # 0
      [] name = "__gt__" -> o > 0
      [] name = "__ge__" -> o >= 0

IntOp(name, p, q) ==
    CASE name \in {"__add__", "__radd__"} -> p + q
      [] name \in {"__sub__", "__rsub__"} -> p - q
      [] name \in {"__mul__", "__rmul__"} -> p * q

IntUnary(name, p) ==
    CASE name = "__neg__" -> 0 - p
      [] name = "__pos__" -> p
      [] name = "__invert__" -> 0 - p - 1

RECURSIVE Repeat(_, _)
Repeat(xs, k) == IF k <= 0 THEN <<>> ELSE xs \o Repeat(xs, k - 1)

\* getattr(a, name) called with args
CallDunder(a, name, args) ==
    IF a.t = "list" /\ name \notin Comparisons \cup {"__add__", "__mul__", "__rmul__"}
    THEN Raise("AttributeError")
    ELSE IF Len(args) # (IF name \in Unary THEN 0 ELSE 1) THEN Raise("TypeError")
    ELSE IF name \in Unary THEN Ok(PyInt(IntUnary(name, a.n)))
    ELSE IF a.t = "int"
         THEN IF args[1].t # "int" THEN Ok(NotImplemented)
              ELSE IF name \in Comparisons THEN Ok(PyBool(Compare(name, Order(a, args[1]))))
              ELSE IF name \in Reflected THEN Ok(PyInt(IntOp(name, args[1].n, a.n)))
              ELSE Ok(PyInt(IntOp(name, a.n, args[1].n)))
    ELSE IF name \in Comparisons
         THEN IF args[1].t # "list" THEN Ok(NotImplemented)
              ELSE Ok(PyBool(Compare(name, Order(a, args[1]))))
    ELSE IF name = "__add__"
         THEN IF args[1].t # "list" THEN Raise("TypeError")
              ELSE Ok(PyList(a.items \o args[1].items))
    ELSE IF args[1].t # "int" THEN Raise("TypeError")
    ELSE Ok(PyList(Repeat(a.items, args[1].n)))

\* the operator of the special method applied to the operands l and r
BinaryOperator(name, l, r) ==
    IF name = "__eq__" THEN Ok(PyBool(l = r))
    ELSE IF name = "__ne__" THEN Ok(PyBool(l # r))
    ELSE IF name \in Comparisons
         THEN IF l.t = r.t /\ l.t \in {"int", "list"}
              THEN Ok(PyBool(Compare(name, Order(l, r))))
              ELSE Raise("TypeError")
    ELSE IF l.t = "int" /\ r.t = "int" THEN Ok(PyInt(IntOp(name, l.n, r.n)))
    ELSE IF name \in {"__add__", "__radd__"} /\ l.t = "list" /\ r.t = "list"
         THEN Ok(PyList(l.items \o r.items))
    ELSE IF name \in {"__mul__", "__rmul__"} /\ l.t = "list" /\ r.t = "int"
         THEN Ok(PyList(Repeat(l.items, r.n)))
    ELSE IF name \in {"__mul__", "__rmul__"} /\ l.t = "int" /\ r.t = "list"
         THEN Ok(PyList(Repeat(r.items, l.n)))
    ELSE Raise("TypeError")

\* `a op x`, `x op a` for a reflected method, `op a` for a unary one
OperatorOn(a, name, args) ==
    IF name \in Unary
    THEN IF a.t = "int" THEN Ok(PyInt(IntUnary(name, a.n))) ELSE Raise("TypeError")
    ELSE BinaryOperator(name, IF name \in Reflected THEN args[1] ELSE a,
                        IF name \in Reflected THEN a ELSE args[1])

\* an accessor as the operand of an operator: the object heap[i]
LensObject(i) == [t |-> "Lens", n |-> i, items |-> <<>>]

\* lambda a: getattr(a, name) called with args
DunderCall(name, args) == [fn |-> name, c |-> PyTuple(args)]

\* lambda a: a op x, for the operator of the special method name
OperatorCall(name, args) == [fn |-> "operator", c |-> PyTuple(args), name |-> name]

Apply(f, a) ==
    CASE f.fn = "identity" -> Ok(a)
      [] f.fn = "const" -> Ok(f.c)
      [] f.fn = "succ" -> IF a.t = "int" THEN Ok(PyInt(a.n + 1)) ELSE Raise("TypeError")
      [] f.fn = "neg" -> IF a.t = "int" THEN Ok(PyInt(0 - a.n)) ELSE Raise("TypeError")
      [] f.fn = "pred" -> IF a.t = "int" THEN Ok(PyInt(a.n - 1)) ELSE Raise("TypeError")
      [] f.fn = "int" -> IF a = EmptyStr THEN Raise("ValueError")
                         ELSE IF a.t \in {"int", "str", "bool"} THEN Ok(PyInt(a.n))
                         ELSE Raise("TypeError")
      [] f.fn \in transparent_dunders -> CallDunder(a, f.fn, f.c.items)
      [] f.fn = "operator" -> OperatorOn(a, f.name, f.c.items)
      [] f.fn = "raise" -> Raise(f.name)
      [] f.fn = "bool" -> Ok(PyBool(Truth(a)))

(***************************************************************************)
(* lenses.optics.  An optic instance is a record: cls is the class name,   *)
(* key the index of a GetitemLens, name the type name of an InstancePrism  *)
(* or the attribute of a GetZoomAttrTraversal, rev tells that an           *)
(* isomorphism runs backwards.  A composite optic is the sequence of its   *)
(* optics, outermost first; the empty sequence is the identity.            *)
(***************************************************************************)
Optic(cls, key, name) ==
    [cls |-> cls, key |-> key, name |-> name, rev |-> FALSE,
     fwd |-> Identity, bwd |-> Identity, default |-> PyNone]

TrivialIso == <<>>

GetitemLens(key) == <<Optic("GetitemLens", key, "")>>

BothTraversal == <<Optic("BothTraversal", 0, "")>>

EachTraversal == <<Optic("EachTraversal", 0, "")>>

InstancePrism(type_) == <<Optic("InstancePrism", 0, type_)>>

JustPrism == <<Optic("JustPrism", 0, "")>>

IterableFold == <<Optic("IterableFold", 0, "")>>

ListWrapIso == <<Optic("ListWrapIso", 0, "")>>

GetZoomAttrTraversal(name) == <<Optic("GetZoomAttrTraversal", 0, name)>>

GetitemOrElseLens(key, default) ==
    <<[Optic("GetitemOrElseLens", key, "") EXCEPT !.default = default]>>

Isomorphism(forwards, backwards) ==
    <<[Optic("Isomorphism", 0, "") EXCEPT !.fwd = forwards, !.bwd = backwards]>>

\* optics.FilteringPrism(predicate), the optic of filter_
FilteringPrism(predicate) == <<[Optic("FilteringPrism", 0, "") EXCEPT !.fwd = predicate]>>

\* optics.ErrorIso(exception) without a message, the optic of error_
ErrorIso(exception) == <<Optic("ErrorIso", 0, exception)>>

\* optics.Getter(getter), the optic of f_
Getter(getter) == <<[Optic("Getter", 0, "") EXCEPT !.fwd = getter]>>

\* Isomorphism(lambda s: s, setter)
NormalisingIso(setter) == <<[Optic("NormalisingIso", 0, "") EXCEPT !.bwd = setter]>>

\* LensLike.compose: other's optics after self's
compose(self, other) == self \o other

\* the kinds of section 3 of the specification, weakest first
KindRank(kind) ==
    CASE kind = "Fold" -> 1
      [] kind = "Setter" -> 2
      [] kind = "Getter" -> 3
      [] kind = "Traversal" -> 4
      [] kind = "Prism" -> 5
      [] kind = "Lens" -> 6
      [] kind = "Isomorphism" -> 7
      [] kind = "Equality" -> 8

KindOf(o) ==
    CASE o.cls = "GetitemLens" -> "Lens"
      [] o.cls = "BothTraversal" -> "Traversal"
      [] o.cls = "EachTraversal" -> "Traversal"
      [] o.cls = "InstancePrism" -> "Prism"
      [] o.cls = "JustPrism" -> "Prism"
      [] o.cls = "IterableFold" -> "Fold"
      [] o.cls = "ListWrapIso" -> "Isomorphism"
      [] o.cls = "GetZoomAttrTraversal" -> "Traversal"
      [] o.cls = "GetitemOrElseLens" -> "Lens"
      [] o.cls = "Isomorphism" -> "Isomorphism"
      [] o.cls = "NormalisingIso" -> "Isomorphism"
      [] o.cls = "Getter" -> "Getter"
      [] o.cls = "ErrorIso" -> "Isomorphism"
      [] o.cls = "FilteringPrism" -> "Prism"

\* the kind of a composite is the weaker of the two kinds
combine_kind(outer, inner) == IF KindRank(outer) <= KindRank(inner) THEN outer ELSE inner

RECURSIVE ChainKind(_)
ChainKind(chain) ==
    IF chain = <<>> THEN "Equality"
    ELSE combine_kind(KindOf(Head(chain)), ChainKind(Tail(chain)))

\* the result r of a function as the one focus of an isomorphism
OneFocus(r) == IF r.exc # "none" THEN r ELSE Ok(PyList(<<r.val>>))

\* the foci one optic reaches in the state s, in the state's own order
\* a FilteringPrism that focuses the state whatever the predicate says
foci_unfiltered(cls, r, s) ==
    IF cls # "FilteringPrism" THEN OneFocus(r)
    ELSE IF r.exc # "none" THEN r
    ELSE Ok(PyList(<<s>>))

\* the foci of an optic made of a function, r the result of the function on
\* the state s: a FilteringPrism focuses s where the predicate holds
FunctionFoci(cls, r, s) ==
    IF cls # "FilteringPrism" THEN OneFocus(r)
    ELSE IF r.exc # "none" THEN r
    ELSE IF Truth(r.val) THEN Ok(PyList(<<s>>))
    ELSE Ok(PyList(<<>>))

Foci(o, s) ==
    CASE o.cls = "GetitemLens" ->
            IF s.t = "dict"
            THEN IF DictHas(s, o.key) THEN Ok(PyList(<<DictGet(s, o.key)>>))
                 ELSE Raise("KeyError")
            ELSE IF s.t # "list" THEN Raise("TypeError")
            ELSE IF o.key + 1 > Len(s.items) THEN Raise("IndexError")
            ELSE Ok(PyList(<<s.items[o.key + 1]>>))
      [] o.cls = "BothTraversal" ->
            IF s.t # "list" THEN Raise("TypeError")
            ELSE IF Len(s.items) < 2 THEN Raise("IndexError")
            ELSE Ok(PyList(<<s.items[1], s.items[2]>>))
      [] o.cls = "EachTraversal" ->
            IF s.t # "list" THEN Raise("TypeError") ELSE Ok(PyList(s.items))
      [] o.cls = "InstancePrism" ->
            IF s.t = o.name THEN Ok(PyList(<<s>>)) ELSE Ok(PyList(<<>>))
      [] o.cls = "JustPrism" ->
            IF s.t = "Just" THEN Ok(PyList(s.items))
            ELSE IF s.t = "Nothing" THEN Ok(PyList(<<>>))
            ELSE Raise("AttributeError")
      [] o.cls = "IterableFold" ->
            IF s.t # "list" THEN Raise("TypeError") ELSE Ok(PyList(s.items))
      [] o.cls = "ListWrapIso" ->
            IF ~o.rev THEN Ok(PyList(<<PyList(<<s>>)>>))
            ELSE IF s.t # "list" THEN Raise("TypeError")
            ELSE IF s.items = <<>> THEN Raise("IndexError")
            ELSE Ok(PyList(<<s.items[1]>>))
      [] o.cls = "GetZoomAttrTraversal" -> Raise("AttributeError")
      [] o.cls = "GetitemOrElseLens" ->
            IF s.t # "dict" THEN Raise("AttributeError")
            ELSE IF DictHas(s, o.key) THEN Ok(PyList(<<DictGet(s, o.key)>>))
            ELSE Ok(PyList(<<o.default>>))
      [] o.cls = "ErrorIso" -> Raise(o.name)
      [] o.cls \in {"Isomorphism", "NormalisingIso", "Getter", "FilteringPrism"} ->
            FunctionFoci(o.cls, Apply(IF o.rev THEN o.bwd ELSE o.fwd, s), s)

\* the state s with the foci of one optic replaced by new, in order
Rebuild(o, s, new) ==
    CASE o.cls = "GetitemLens" ->
            IF s.t = "dict" THEN Ok(DictSet(s, o.key, new[1]))
            ELSE Ok(PyList([k \in 1..Len(s.items) |->
                              IF k = o.key + 1 THEN new[1] ELSE s.items[k]]))
      [] o.cls = "BothTraversal" ->
            Ok(PyList([k \in 1..Len(s.items) |->
                         IF k <= 2 THEN new[k] ELSE s.items[k]]))
      [] o.cls = "EachTraversal" -> Ok(PyList(new))
      [] o.cls \in {"InstancePrism", "FilteringPrism"} ->
            IF new = <<>> THEN Ok(s) ELSE Ok(new[1])
      [] o.cls = "JustPrism" -> IF new = <<>> THEN Ok(s) ELSE Ok(Just(new[1]))
      [] o.cls = "IterableFold" -> Raise("TypeError")
      [] o.cls = "ListWrapIso" ->
            IF o.rev THEN Ok(PyList(<<new[1]>>))
            ELSE IF new[1].t # "list" THEN Raise("TypeError")
            ELSE IF new[1].items = <<>> THEN Raise("IndexError")
            ELSE Ok(new[1].items[1])
      [] o.cls = "GetZoomAttrTraversal" -> Raise("AttributeError")
      [] o.cls = "GetitemOrElseLens" -> Ok(DictSet(s, o.key, new[1]))
      [] o.cls \in {"Isomorphism", "NormalisingIso"} ->
            Apply(IF o.rev THEN o.fwd ELSE o.bwd, new[1])
      [] o.cls = "Getter" -> Raise("TypeError")
      [] o.cls = "ErrorIso" -> Raise(o.name)

RECURSIVE Flatten(_)
Flatten(lists) ==
    IF lists = <<>> THEN <<>> ELSE Head(lists).items \o Flatten(Tail(lists))

\* the first exception among a sequence of results, "none" when there is none
RECURSIVE FirstExc(_)
FirstExc(rs) ==
    IF rs = <<>> THEN "none"
    ELSE IF Head(rs).exc # "none" THEN Head(rs).exc
    ELSE FirstExc(Tail(rs))

\* LensLike.to_list_of: every focus, left to right and depth first
RECURSIVE to_list_of(_, _)
to_list_of(chain, s) ==
    IF chain = <<>> THEN Ok(PyList(<<s>>))
    ELSE LET step == Foci(Head(chain), s)
         IN  IF step.exc # "none" THEN step
             ELSE LET subs == [k \in 1..Len(step.val.items) |->
                                 to_list_of(Tail(chain), step.val.items[k])]
                  IN  IF FirstExc(subs) # "none" THEN Raise(FirstExc(subs))
                      ELSE Ok(PyList(Flatten([k \in 1..Len(subs) |-> subs[k].val])))

\* LensLike.over: the function applied to every focus, the state rebuilt
\* from the inside out
RECURSIVE over(_, _, _)
over(chain, s, f) ==
    IF chain = <<>> THEN Apply(f, s)
    ELSE LET step == Foci(Head(chain), s)
         IN  IF step.exc # "none" THEN step
             ELSE LET subs == [k \in 1..Len(step.val.items) |->
                                 over(Tail(chain), step.val.items[k], f)]
                  IN  IF FirstExc(subs) # "none" THEN Raise(FirstExc(subs))
                      ELSE Rebuild(Head(chain), s, [k \in 1..Len(subs) |-> subs[k].val])

\* LensLike.set: over with the constant function
optic_set(chain, s, newvalue) == over(chain, s, Const(newvalue))

\* the monoid of a focus: numbers add, lists concatenate
mappend(a, b) ==
    IF a.t = "int" /\ b.t = "int" THEN Ok(PyInt(a.n + b.n))
    ELSE IF a.t = "list" /\ b.t = "list" THEN Ok(PyList(a.items \o b.items))
    ELSE Raise("TypeError")

RECURSIVE mconcat(_)
mconcat(xs) ==
    IF Len(xs) = 1 THEN Ok(xs[1])
    ELSE LET rest == mconcat(Tail(xs))
         IN  IF rest.exc # "none" THEN rest ELSE mappend(Head(xs), rest.val)

\* LensLike.view: the foci merged as a monoid (at least one focus)
view(chain, s) ==
    LET l == to_list_of(chain, s)
    IN  IF l.exc # "none" THEN l ELSE mconcat(l.val.items)

IsReversible(chain) ==
    \A k \in 1..Len(chain) : KindOf(chain[k]) \in {"Isomorphism", "Equality"}

\* LensLike.re / LensLike.from_: each isomorphism turned round, last first
Reversed(chain) ==
    [k \in 1..Len(chain) |->
       [chain[Len(chain) + 1 - k] EXCEPT !.rev = ~chain[Len(chain) + 1 - k].rev]]

(***************************************************************************)
(* class Lens of lenses/ui.py.                                             *)
(***************************************************************************)
\* a call that returns the plain value v
Return(h, v) == [heap |-> h, exc |-> "none", ret |-> v, obj |-> 0]

\* a call that raises e
Fail(h, e) == [heap |-> h, exc |-> e, ret |-> PyNone, obj |-> 0]

\* a call that returns a newly created accessor
Alloc(h, object) == [heap |-> Append(h, object), exc |-> "none", ret |-> PyNone,
                     obj |-> Len(h) + 1]

\* Lens.__init__: lens is <<>> for the default None, <<optic>> otherwise
Lens__init__(state, lens) ==
    [state |-> state, lens |-> IF lens = <<>> THEN TrivialIso ELSE lens[1]]

\* _assert_bound that never raises
assert_bound_never(object) == "none"

\* _assert_bound that takes every falsy state for the unbound marker
assert_bound_falsy(object) == IF ~Truth(object.state) THEN "ValueError" ELSE "none"

\* Lens._assert_bound: the exception it raises, "none" when it returns
assert_bound(object) == IF object.state = PyNone THEN "ValueError" ELSE "none"

\* Lens._assert_unbound
assert_unbound(object) == IF object.state # PyNone THEN "ValueError" ELSE "none"

\* bind without the check that self is unbound
bind_unchecked(h, self, state) == Alloc(h, Lens__init__(state, <<h[self].lens>>))

\* bind that stores the state in self and returns self
bind_inplace(h, self, state) ==
    IF assert_unbound(h[self]) # "none" THEN Fail(h, assert_unbound(h[self]))
    ELSE [heap |-> [h EXCEPT ![self].state = state], exc |-> "none", ret |-> PyNone,
          obj |-> self]

\* Lens.bind
bind(h, self, state) ==
    IF assert_unbound(h[self]) # "none" THEN Fail(h, assert_unbound(h[self]))
    ELSE Alloc(h, Lens__init__(state, <<h[self].lens>>))

\* __get__ that binds whatever the instance is
Lens__get__binding(h, self, instance) == bind(h, self, instance)

\* Lens.__get__(instance, owner): instance is None when the attribute is read
\* through the class; obj is the accessor returned
Lens__get__(h, self, instance) ==
    IF instance = PyNone
    THEN [heap |-> h, exc |-> "none", ret |-> PyNone, obj |-> self]
    ELSE bind(h, self, instance)

\* `if state is not None: self = self.bind(state)`, the first statement of
\* every query: obj is what self names afterwards
rebind(h, self, state) ==
    IF state # PyNone THEN bind(h, self, state)
    ELSE [heap |-> h, exc |-> "none", ret |-> PyNone, obj |-> self]

\* get that returns the last focus
get_last(h, self, state) ==
    LET b == rebind(h, self, state)
    IN  IF b.exc # "none" THEN Fail(b.heap, b.exc)
        ELSE IF assert_bound(b.heap[b.obj]) # "none"
             THEN Fail(b.heap, assert_bound(b.heap[b.obj]))
        ELSE LET l == to_list_of(b.heap[b.obj].lens, b.heap[b.obj].state)
             IN  IF l.exc # "none" THEN Fail(b.heap, l.exc)
                 ELSE IF l.val.items = <<>> THEN Fail(b.heap, "IndexError")
                 ELSE Return(b.heap, l.val.items[Len(l.val.items)])

\* get that refuses an optic weaker than a Lens
get_kind_checked(h, self, state) ==
    LET b == rebind(h, self, state)
    IN  IF b.exc # "none" THEN Fail(b.heap, b.exc)
        ELSE IF assert_bound(b.heap[b.obj]) # "none"
             THEN Fail(b.heap, assert_bound(b.heap[b.obj]))
        ELSE IF KindRank(ChainKind(b.heap[b.obj].lens)) < KindRank("Lens")
             THEN Fail(b.heap, "TypeError")
        ELSE LET l == to_list_of(b.heap[b.obj].lens, b.heap[b.obj].state)
             IN  IF l.exc # "none" THEN Fail(b.heap, l.exc)
                 ELSE IF l.val.items = <<>> THEN Fail(b.heap, "IndexError")
                 ELSE Return(b.heap, l.val.items[1])

\* get that returns None when there is no focus
get_default_none(h, self, state) ==
    LET b == rebind(h, self, state)
    IN  IF b.exc # "none" THEN Fail(b.heap, b.exc)
        ELSE IF assert_bound(b.heap[b.obj]) # "none"
             THEN Fail(b.heap, assert_bound(b.heap[b.obj]))
        ELSE LET l == to_list_of(b.heap[b.obj].lens, b.heap[b.obj].state)
             IN  IF l.exc # "none" THEN Fail(b.heap, l.exc)
                 ELSE IF l.val.items = <<>> THEN Return(b.heap, PyNone)
                 ELSE Return(b.heap, l.val.items[1])

\* get that returns the bound state, not the focus
get_returns_state(h, self, state) ==
    LET b == rebind(h, self, state)
    IN  IF b.exc # "none" THEN Fail(b.heap, b.exc)
        ELSE IF assert_bound(b.heap[b.obj]) # "none"
             THEN Fail(b.heap, assert_bound(b.heap[b.obj]))
        ELSE LET l == to_list_of(b.heap[b.obj].lens, b.heap[b.obj].state)
             IN  IF l.exc # "none" THEN Fail(b.heap, l.exc)
                 ELSE IF l.val.items = <<>> THEN Fail(b.heap, "IndexError")
                 ELSE Return(b.heap, b.heap[b.obj].state)

\* Lens.get
get(h, self, state) ==
    LET b == rebind(h, self, state)
    IN  IF b.exc # "none" THEN Fail(b.heap, b.exc)
        ELSE IF assert_bound(b.heap[b.obj]) # "none"
             THEN Fail(b.heap, assert_bound(b.heap[b.obj]))
        ELSE LET l == to_list_of(b.heap[b.obj].lens, b.heap[b.obj].state)
             IN  IF l.exc # "none" THEN Fail(b.heap, l.exc)
                 ELSE IF l.val.items = <<>> THEN Fail(b.heap, "IndexError")
                 ELSE Return(b.heap, l.val.items[1])

\* get_all that raises when there is no focus
get_all_strict(h, self, state) ==
    LET b == rebind(h, self, state)
    IN  IF b.exc # "none" THEN Fail(b.heap, b.exc)
        ELSE IF assert_bound(b.heap[b.obj]) # "none"
             THEN Fail(b.heap, assert_bound(b.heap[b.obj]))
        ELSE LET l == to_list_of(b.heap[b.obj].lens, b.heap[b.obj].state)
             IN  IF l.exc # "none" THEN Fail(b.heap, l.exc)
                 ELSE IF l.val.items = <<>> THEN Fail(b.heap, "IndexError")
                 ELSE Return(b.heap, l.val)

\* get_all that returns every focus twice
get_all_doubled(h, self, state) ==
    LET b == rebind(h, self, state)
    IN  IF b.exc # "none" THEN Fail(b.heap, b.exc)
        ELSE IF assert_bound(b.heap[b.obj]) # "none"
             THEN Fail(b.heap, assert_bound(b.heap[b.obj]))
        ELSE LET l == to_list_of(b.heap[b.obj].lens, b.heap[b.obj].state)
             IN  IF l.exc # "none" THEN Fail(b.heap, l.exc)
                 ELSE Return(b.heap, PyList(l.val.items \o l.val.items))

\* Lens.get_all
get_all(h, self, state) ==
    LET b == rebind(h, self, state)
    IN  IF b.exc # "none" THEN Fail(b.heap, b.exc)
        ELSE IF assert_bound(b.heap[b.obj]) # "none"
             THEN Fail(b.heap, assert_bound(b.heap[b.obj]))
        ELSE LET l == to_list_of(b.heap[b.obj].lens, b.heap[b.obj].state)
             IN  IF l.exc # "none" THEN Fail(b.heap, l.exc)
                 ELSE Return(b.heap, l.val)

\* Lens.get_monoid
get_monoid(h, self, state) ==
    LET b == rebind(h, self, state)
    IN  IF b.exc # "none" THEN Fail(b.heap, b.exc)
        ELSE IF assert_bound(b.heap[b.obj]) # "none"
             THEN Fail(b.heap, assert_bound(b.heap[b.obj]))
        ELSE LET m == view(b.heap[b.obj].lens, b.heap[b.obj].state)
             IN  IF m.exc # "none" THEN Fail(b.heap, m.exc)
                 ELSE Return(b.heap, m.val)

\* set with the arguments of LensLike.set in the wrong order
set_swapped(h, self, newvalue, state) ==
    LET b == rebind(h, self, state)
    IN  IF b.exc # "none" THEN Fail(b.heap, b.exc)
        ELSE IF assert_bound(b.heap[b.obj]) # "none"
             THEN Fail(b.heap, assert_bound(b.heap[b.obj]))
        ELSE LET r == optic_set(b.heap[b.obj].lens, newvalue, b.heap[b.obj].state)
             IN  IF r.exc # "none" THEN Fail(b.heap, r.exc)
                 ELSE Return(b.heap, r.val)

\* set that forgets the new value
set_keeps_state(h, self, newvalue, state) ==
    LET b == rebind(h, self, state)
    IN  IF b.exc # "none" THEN Fail(b.heap, b.exc)
        ELSE IF assert_bound(b.heap[b.obj]) # "none"
             THEN Fail(b.heap, assert_bound(b.heap[b.obj]))
        ELSE LET r == over(b.heap[b.obj].lens, b.heap[b.obj].state, Identity)
             IN  IF r.exc # "none" THEN Fail(b.heap, r.exc)
                 ELSE Return(b.heap, r.val)

\* set that catches what the optic raises and returns the state as it is
set_catching(h, self, newvalue, state) ==
    LET b == rebind(h, self, state)
    IN  IF b.exc # "none" THEN Fail(b.heap, b.exc)
        ELSE IF assert_bound(b.heap[b.obj]) # "none"
             THEN Fail(b.heap, assert_bound(b.heap[b.obj]))
        ELSE LET r == optic_set(b.heap[b.obj].lens, b.heap[b.obj].state, newvalue)
             IN  IF r.exc # "none" THEN Return(b.heap, b.heap[b.obj].state)
                 ELSE Return(b.heap, r.val)

\* Lens.set
set(h, self, newvalue, state) ==
    LET b == rebind(h, self, state)
    IN  IF b.exc # "none" THEN Fail(b.heap, b.exc)
        ELSE IF assert_bound(b.heap[b.obj]) # "none"
             THEN Fail(b.heap, assert_bound(b.heap[b.obj]))
        ELSE LET r == optic_set(b.heap[b.obj].lens, b.heap[b.obj].state, newvalue)
             IN  IF r.exc # "none" THEN Fail(b.heap, r.exc)
                 ELSE Return(b.heap, r.val)

\* modify that returns the new focus, not the new state
modify_returns_focus(h, self, func, state) ==
    LET b == rebind(h, self, state)
    IN  IF b.exc # "none" THEN Fail(b.heap, b.exc)
        ELSE IF assert_bound(b.heap[b.obj]) # "none"
             THEN Fail(b.heap, assert_bound(b.heap[b.obj]))
        ELSE LET l == to_list_of(b.heap[b.obj].lens, b.heap[b.obj].state)
             IN  IF l.exc # "none" THEN Fail(b.heap, l.exc)
                 ELSE IF l.val.items = <<>> THEN Fail(b.heap, "IndexError")
                 ELSE LET r == Apply(func, l.val.items[1])
                      IN  IF r.exc # "none" THEN Fail(b.heap, r.exc)
                          ELSE Return(b.heap, r.val)

\* modify that applies the function a second time to the new state
modify_twice(h, self, func, state) ==
    LET b == rebind(h, self, state)
    IN  IF b.exc # "none" THEN Fail(b.heap, b.exc)
        ELSE IF assert_bound(b.heap[b.obj]) # "none"
             THEN Fail(b.heap, assert_bound(b.heap[b.obj]))
        ELSE LET r == over(b.heap[b.obj].lens, b.heap[b.obj].state, func)
             IN  IF r.exc # "none" THEN Fail(b.heap, r.exc)
                 ELSE LET r2 == over(b.heap[b.obj].lens, r.val, func)
                      IN  IF r2.exc # "none" THEN Fail(b.heap, r2.exc)
                          ELSE Return(b.heap, r2.val)

\* Lens.modify
modify(h, self, func, state) ==
    LET b == rebind(h, self, state)
    IN  IF b.exc # "none" THEN Fail(b.heap, b.exc)
        ELSE IF assert_bound(b.heap[b.obj]) # "none"
             THEN Fail(b.heap, assert_bound(b.heap[b.obj]))
        ELSE LET r == over(b.heap[b.obj].lens, b.heap[b.obj].state, func)
             IN  IF r.exc # "none" THEN Fail(b.heap, r.exc)
                 ELSE Return(b.heap, r.val)

\* construct that views the optic itself, not the reversed optic
construct_unreversed(h, self, focus) ==
    LET b == rebind(h, self, focus)
    IN  IF b.exc # "none" THEN Fail(b.heap, b.exc)
        ELSE IF assert_bound(b.heap[b.obj]) # "none"
             THEN Fail(b.heap, assert_bound(b.heap[b.obj]))
        ELSE IF ~IsReversible(b.heap[b.obj].lens) THEN Fail(b.heap, "TypeError")
        ELSE LET m == view(b.heap[b.obj].lens, b.heap[b.obj].state)
             IN  IF m.exc # "none" THEN Fail(b.heap, m.exc)
                 ELSE Return(b.heap, m.val)

\* construct that turns each isomorphism round but keeps their order
construct_order_kept(h, self, focus) ==
    LET b == rebind(h, self, focus)
    IN  IF b.exc # "none" THEN Fail(b.heap, b.exc)
        ELSE IF assert_bound(b.heap[b.obj]) # "none"
             THEN Fail(b.heap, assert_bound(b.heap[b.obj]))
        ELSE IF ~IsReversible(b.heap[b.obj].lens) THEN Fail(b.heap, "TypeError")
        ELSE LET m == view([k \in 1..Len(b.heap[b.obj].lens) |->
                              [b.heap[b.obj].lens[k] EXCEPT !.rev = ~@]],
                           b.heap[b.obj].state)
             IN  IF m.exc # "none" THEN Fail(b.heap, m.exc)
                 ELSE Return(b.heap, m.val)

\* Lens.construct: the reversed optic viewed at the focus
construct(h, self, focus) ==
    LET b == rebind(h, self, focus)
    IN  IF b.exc # "none" THEN Fail(b.heap, b.exc)
        ELSE IF assert_bound(b.heap[b.obj]) # "none"
             THEN Fail(b.heap, assert_bound(b.heap[b.obj]))
        ELSE IF ~IsReversible(b.heap[b.obj].lens) THEN Fail(b.heap, "TypeError")
        ELSE LET m == view(Reversed(b.heap[b.obj].lens), b.heap[b.obj].state)
             IN  IF m.exc # "none" THEN Fail(b.heap, m.exc)
                 ELSE Return(b.heap, m.val)

\* add_lens that forgets the state of self
add_lens_optic_stateless(h, self, other) ==
    Alloc(h, Lens__init__(PyNone, <<compose(h[self].lens, other)>>))

\* add_lens that requires self to be unbound
add_lens_optic_unbound_only(h, self, other) ==
    IF assert_unbound(h[self]) # "none" THEN Fail(h, assert_unbound(h[self]))
    ELSE Alloc(h, Lens__init__(h[self].state, <<compose(h[self].lens, other)>>))

\* Lens.add_lens with a LensLike as other
add_lens_optic(h, self, other) ==
    Alloc(h, Lens__init__(h[self].state, <<compose(h[self].lens, other)>>))

\* add_lens that composes only the outermost optic of other
add_lens_first_only(h, self, other) ==
    IF assert_unbound(h[other]) # "none" THEN Fail(h, assert_unbound(h[other]))
    ELSE Alloc(h, Lens__init__(h[self].state,
                               <<compose(h[self].lens,
                                         SubSeq(h[other].lens, 1,
                                                IF h[other].lens = <<>> THEN 0 ELSE 1))>>))

\* add_lens that does not check that other is unbound
add_lens_unchecked(h, self, other) ==
    Alloc(h, Lens__init__(h[self].state, <<compose(h[self].lens, h[other].lens)>>))

\* Lens.add_lens with a Lens as other
add_lens(h, self, other) ==
    IF assert_unbound(h[other]) # "none" THEN Fail(h, assert_unbound(h[other]))
    ELSE Alloc(h, Lens__init__(h[self].state, <<compose(h[self].lens, h[other].lens)>>))

\* Lens.add_lens with anything else as other
add_lens_other(h, self) == Fail(h, "TypeError")

\* flip that keeps the direction of the optic
flip_same_direction(h, self) ==
    IF assert_unbound(h[self]) # "none" THEN Fail(h, assert_unbound(h[self]))
    ELSE IF ~IsReversible(h[self].lens) THEN Fail(h, "TypeError")
    ELSE Alloc(h, Lens__init__(h[self].state, <<h[self].lens>>))

\* Lens.flip
flip(h, self) ==
    IF assert_unbound(h[self]) # "none" THEN Fail(h, assert_unbound(h[self]))
    ELSE IF ~IsReversible(h[self].lens) THEN Fail(h, "TypeError")
    ELSE Alloc(h, Lens__init__(h[self].state, <<Reversed(h[self].lens)>>))

\* the optic each builder method hands to add_lens
Builders == {"both_", "each_", "instance_int", "instance_list", "just_", "iter_",
             "listwrap_"}

BuilderOptic(b) ==
    CASE b = "both_" -> BothTraversal
      [] b = "each_" -> EachTraversal
      [] b = "instance_int" -> InstancePrism("int")
      [] b = "instance_list" -> InstancePrism("list")
      [] b = "just_" -> JustPrism
      [] b = "iter_" -> IterableFold
      [] b = "listwrap_" -> ListWrapIso

\* Lens.both_, each_, instance_, just_, iter_, listwrap_
build(h, self, b) == add_lens_optic(h, self, BuilderOptic(b))

\* Lens.getitem_ and Lens.__getitem__
getitem_(h, self, key) == add_lens_optic(h, self, GetitemLens(key))

\* the attribute names tried on an accessor
AttrNames == {"left", "left_"}

EndsWithUnderscore(name) == name \in {"left_"} \cup transparent_dunders \cup InplaceDunders

\* Lens.__getitem__
Lens__getitem__(h, self, name) == add_lens_optic(h, self, GetitemLens(name))

\* Lens.__getattr__ for a name that is no call_ shortcut
Lens__getattr__(h, self, name) ==
    IF EndsWithUnderscore(name) THEN Fail(h, "AttributeError")
    ELSE add_lens_optic(h, self, GetZoomAttrTraversal(name))

\* what an attribute lookup that finds a method of the class returns
BoundMethod == [t |-> "method", n |-> 0, items |-> <<>>]

\* getattr(lens, name) for the name of a special method: the methods that
\* _add_extra_methods has set on the class are found there, any other name
\* goes to __getattr__
getattr_dunder(h, self, name) ==
    IF name \in transparent_dunders THEN Return(h, BoundMethod)
    ELSE Lens__getattr__(h, self, name)

\* an operation that calls the special method on the state whatever it is
operation_on_state(h, self, name, args) ==
    LET r == Apply(DunderCall(name, args), h[self].state)
    IN  IF r.exc # "none" THEN Fail(h, r.exc) ELSE Return(h, r.val)

\* operation, the method _carry_op(name) makes
operation(h, self, name, args) == modify(h, self, DunderCall(name, args), PyNone)

(***************************************************************************)
(* Objects with identity.  A state handed to call_mut is a reference into  *)
(* `mem`, the sequence of the Python objects that can be mutated: a cell   *)
(* is a list (items are its elements) or an instance of a class Stack      *)
(* whose one attribute refers to a list (items holds that reference) and   *)
(* whose method push(x) appends x to that list.  An element is an int or   *)
(* a reference to a cell.                                                  *)
(***************************************************************************)
Ref(i) == [t |-> "ref", n |-> i, items |-> <<>>]

Cell(cls, items) == [cls |-> cls, items |-> items]

\* the value of a, every reference followed
RECURSIVE Value(_, _)
Value(m, a) ==
    IF a.t # "ref" THEN a
    ELSE [t |-> m[a.n].cls, n |-> 0,
          items |-> [k \in 1..Len(m[a.n].items) |-> Value(m, m[a.n].items[k])]]

\* copy.copy: a new object that holds the same elements
copy_copy(m, a) ==
    IF a.t # "ref" THEN [mem |-> m, val |-> a]
    ELSE [mem |-> Append(m, m[a.n]), val |-> Ref(Len(m) + 1)]

\* copy.deepcopy: a new object that holds deep copies of the elements
RECURSIVE copy_deepcopy(_, _)
RECURSIVE deepcopy_items(_, _)
deepcopy_items(m, xs) ==
    IF xs = <<>> THEN [mem |-> m, val |-> <<>>]
    ELSE LET c == copy_deepcopy(m, Head(xs))
             rest == deepcopy_items(c.mem, Tail(xs))
         IN  [mem |-> rest.mem, val |-> <<c.val>> \o rest.val]

copy_deepcopy(m, a) ==
    IF a.t # "ref" THEN [mem |-> m, val |-> a]
    ELSE LET c == deepcopy_items(m, m[a.n].items)
         IN  [mem |-> Append(c.mem, Cell(m[a.n].cls, c.val)), val |-> Ref(Len(c.mem) + 1)]

\* the ints xs in ascending order
RECURSIVE SortInts(_)
SortInts(xs) ==
    IF xs = <<>> THEN <<>>
    ELSE LET i == CHOOSE i \in 1..Len(xs) : \A j \in 1..Len(xs) : xs[i].n <= xs[j].n
         IN  <<xs[i]>> \o SortInts(SubSeq(xs, 1, i - 1) \o SubSeq(xs, i + 1, Len(xs)))

Reverse(xs) == [k \in 1..Len(xs) |-> xs[Len(xs) + 1 - k]]

\* **kwargs: the keyword arguments of a call, each keyword absent (<<>>) or
\* present with its value
NoKwargs == [state |-> <<>>, shallow |-> <<>>, reverse |-> <<>>]

\* the keyword arguments shallow=True, when shallow, and state=kwstate[1],
\* when there is one
Kwargs(shallow, kwstate) ==
    [NoKwargs EXCEPT !.state = kwstate,
                     !.shallow = IF shallow THEN <<PyBool(TRUE)>> ELSE <<>>]

Methods == {"sort", "reverse", "append", "push"}

\* getattr(a, method_name) called with args, for a method that mutates a
\* in place;
\* what the method returns is not kept
call_method(m, a, method_name, args, kwargs) ==
    IF a.t # "ref" THEN [mem |-> m, exc |-> "AttributeError"]
    ELSE IF m[a.n].cls = "list" /\ method_name = "sort"
         THEN IF args # <<>> \/ [kwargs EXCEPT !.reverse = <<>>] # NoKwargs
              THEN [mem |-> m, exc |-> "TypeError"]
              ELSE IF kwargs.reverse # <<>> /\ Truth(kwargs.reverse[1])
              THEN [mem |-> [m EXCEPT ![a.n].items = Reverse(SortInts(@))], exc |-> "none"]
              ELSE [mem |-> [m EXCEPT ![a.n].items = SortInts(@)], exc |-> "none"]
    ELSE IF m[a.n].cls = "list" /\ method_name = "reverse"
         THEN IF args # <<>> \/ kwargs # NoKwargs THEN [mem |-> m, exc |-> "TypeError"]
              ELSE [mem |-> [m EXCEPT ![a.n].items = Reverse(@)], exc |-> "none"]
    ELSE IF m[a.n].cls = "list" /\ method_name = "append"
         THEN IF Len(args) # 1 \/ kwargs # NoKwargs THEN [mem |-> m, exc |-> "TypeError"]
              ELSE [mem |-> [m EXCEPT ![a.n].items = Append(@, args[1])], exc |-> "none"]
    ELSE IF m[a.n].cls = "Stack" /\ method_name = "push"
         THEN IF Len(args) # 1 \/ kwargs # NoKwargs THEN [mem |-> m, exc |-> "TypeError"]
              ELSE [mem |-> [m EXCEPT ![m[a.n].items[1].n].items = Append(@, args[1])],
                    exc |-> "none"]
    ELSE [mem |-> m, exc |-> "AttributeError"]

\* func of call_mut that calls the method on the focus itself
call_mut_func_in_place(m, a, method_name, args, kwargs, shallow) ==
    LET e == call_method(m, a, method_name, args, kwargs)
    IN  [mem |-> e.mem, exc |-> e.exc, val |-> a]

\* func of Lens.call_mut: copy the focus, call the method on the copy,
\* return the copy
call_mut_func(m, a, method_name, args, kwargs, shallow) ==
    LET c == IF shallow THEN copy_copy(m, a) ELSE copy_deepcopy(m, a)
        e == call_method(c.mem, c.val, method_name, args, kwargs)
    IN  [mem |-> e.mem, exc |-> e.exc, val |-> c.val]

\* func of Lens.call: call the method on the focus itself and return what
\* the method returns (None for the methods that mutate, a new list for
\* list.copy)
call_func(m, a, method_name, args, kwargs) ==
    IF method_name = "copy" /\ a.t = "ref"
    THEN IF m[a.n].cls # "list" THEN [mem |-> m, exc |-> "AttributeError", val |-> PyNone]
         ELSE IF args # <<>> \/ kwargs # NoKwargs
         THEN [mem |-> m, exc |-> "TypeError", val |-> PyNone]
         ELSE copy_copy(m, a) @@ [exc |-> "none"]
    ELSE call_method(m, a, method_name, args, kwargs) @@ [val |-> PyNone]

\* the functions call_mut and call hand to modify
CallMutFunc(method_name, args, kwargs, shallow) ==
    [fn |-> "call_mut", name |-> method_name, args |-> args, kwargs |-> kwargs,
     shallow |-> shallow]

CallFunc(method_name, args, kwargs) ==
    [fn |-> "call", name |-> method_name, args |-> args, kwargs |-> kwargs,
     shallow |-> FALSE]

\* func(a) for the function of call_mut or of call
ApplyMem(m, f, a) ==
    IF f.fn = "call_mut" THEN call_mut_func(m, a, f.name, f.args, f.kwargs, f.shallow)
    ELSE call_func(m, a, f.name, f.args, f.kwargs)

\* LensLike.over for an optic made of GetitemLens only, on a state held in
\* mem: the focus is state[key], the new state a copy.copy of the state
\* with the new focus at key
RECURSIVE over_mem(_, _, _, _)
over_mem(m, chain, s, f) ==
    IF chain = <<>> THEN ApplyMem(m, f, s)
    ELSE IF s.t # "ref" THEN [mem |-> m, exc |-> "TypeError", val |-> PyNone]
    ELSE IF m[s.n].cls # "list" THEN [mem |-> m, exc |-> "TypeError", val |-> PyNone]
    ELSE IF Head(chain).key + 1 > Len(m[s.n].items)
         THEN [mem |-> m, exc |-> "IndexError", val |-> PyNone]
    ELSE LET inner == over_mem(m, Tail(chain), m[s.n].items[Head(chain).key + 1], f)
         IN  IF inner.exc # "none" THEN inner
             ELSE [mem |-> Append(inner.mem,
                                  [m[s.n] EXCEPT !.items[Head(chain).key + 1] = inner.val]),
                   exc |-> "none", val |-> Ref(Len(inner.mem) + 1)]

\* call_mut that hands the keyword shallow on to the method it calls
call_mut_forwarding(h, m, self, method_name, args, kwargs) ==
    LET b == IF kwargs.state # <<>> THEN bind(h, self, kwargs.state[1])
             ELSE [heap |-> h, exc |-> "none", ret |-> PyNone, obj |-> self]
    IN  IF b.exc # "none" THEN Fail(b.heap, b.exc) @@ [mem |-> m]
        ELSE IF assert_bound(b.heap[b.obj]) # "none"
             THEN Fail(b.heap, assert_bound(b.heap[b.obj])) @@ [mem |-> m]
        ELSE LET r == over_mem(m, b.heap[b.obj].lens, b.heap[b.obj].state,
                               CallMutFunc(method_name, args,
                                           [kwargs EXCEPT !.state = <<>>],
                                           kwargs.shallow # <<>>
                                              /\ Truth(kwargs.shallow[1])))
             IN  IF r.exc # "none" THEN Fail(b.heap, r.exc) @@ [mem |-> r.mem]
                 ELSE Return(b.heap, r.val) @@ [mem |-> r.mem]

\* Lens.call_mut
call_mut(h, m, self, method_name, args, kwargs) ==
    LET b == IF kwargs.state # <<>> THEN bind(h, self, kwargs.state[1])
             ELSE [heap |-> h, exc |-> "none", ret |-> PyNone, obj |-> self]
    IN  IF b.exc # "none" THEN Fail(b.heap, b.exc) @@ [mem |-> m]
        ELSE IF assert_bound(b.heap[b.obj]) # "none"
             THEN Fail(b.heap, assert_bound(b.heap[b.obj])) @@ [mem |-> m]
        ELSE LET r == over_mem(m, b.heap[b.obj].lens, b.heap[b.obj].state,
                               CallMutFunc(method_name, args,
                                           [kwargs EXCEPT !.state = <<>>,
                                                          !.shallow = <<>>],
                                           kwargs.shallow # <<>>
                                              /\ Truth(kwargs.shallow[1])))
             IN  IF r.exc # "none" THEN Fail(b.heap, r.exc) @@ [mem |-> r.mem]
                 ELSE Return(b.heap, r.val) @@ [mem |-> r.mem]

\* Lens.call on a state held in mem
call(h, m, self, method_name, args, kwargs) ==
    LET b == IF kwargs.state # <<>> THEN bind(h, self, kwargs.state[1])
             ELSE [heap |-> h, exc |-> "none", ret |-> PyNone, obj |-> self]
    IN  IF b.exc # "none" THEN Fail(b.heap, b.exc) @@ [mem |-> m]
        ELSE IF assert_bound(b.heap[b.obj]) # "none"
             THEN Fail(b.heap, assert_bound(b.heap[b.obj])) @@ [mem |-> m]
        ELSE LET r == over_mem(m, b.heap[b.obj].lens, b.heap[b.obj].state,
                               CallFunc(method_name, args,
                                        [kwargs EXCEPT !.state = <<>>]))
             IN  IF r.exc # "none" THEN Fail(b.heap, r.exc) @@ [mem |-> r.mem]
                 ELSE Return(b.heap, r.val) @@ [mem |-> r.mem]

(***************************************************************************)
(* Attribute names.  A name is the sequence of its characters, so that     *)
(* endswith, startswith and slicing are computed on it; Chars spells the   *)
(* words the model uses and NameOf reads a spelled word back.              *)
(***************************************************************************)
Chars(word) ==
    CASE word = "_" -> <<"_">>
      [] word = "call_" -> <<"c", "a", "l", "l", "_">>
      [] word = "mut_" -> <<"m", "u", "t", "_">>
      [] word = "sort" -> <<"s", "o", "r", "t">>
      [] word = "copy" -> <<"c", "o", "p", "y">>
      [] word = "left" -> <<"l", "e", "f", "t">>
      [] word = "mut_sort" -> <<"m", "u", "t", "_", "s", "o", "r", "t">>
      [] word = "mut_copy" -> <<"m", "u", "t", "_", "c", "o", "p", "y">>
      [] word = "callsort" -> <<"c", "a", "l", "l", "s", "o", "r", "t">>

Words == {"sort", "copy", "left", "mut_sort", "mut_copy", "callsort"}

\* the string of the characters cs; "" stands for a string that names nothing
NameOf(cs) ==
    IF \E w \in Words : Chars(w) = cs THEN CHOOSE w \in Words : Chars(w) = cs ELSE ""

\* str.endswith and str.startswith
endswith(name, suffix) ==
    /\ Len(name) >= Len(suffix)
    /\ SubSeq(name, Len(name) - Len(suffix) + 1, Len(name)) = suffix

startswith(name, prefix) ==
    /\ Len(name) >= Len(prefix)
    /\ SubSeq(name, 1, Len(prefix)) = prefix

\* name[k:]
SliceFrom(name, k) == SubSeq(name, k + 1, Len(name))

\* the closure caller that __getattr__ returns: target is the method of
\* self it calls, method the name it passes
Caller(self, target, method) ==
    [t |-> "function", n |-> self, items |-> <<>>, target |-> target, method |-> method]

\* Lens.getzoomattr_
getzoomattr_(h, self, name) == add_lens_optic(h, self, GetZoomAttrTraversal(name))

\* __getattr__ that looks for the prefix call_ first
getattr_call_first(h, self, name) ==
    IF endswith(name, Chars("_")) THEN Fail(h, "AttributeError")
    ELSE IF startswith(name, Chars("call_"))
         THEN Return(h, Caller(self, "call", NameOf(SliceFrom(name, 5))))
    ELSE IF startswith(name, Chars("call_") \o Chars("mut_"))
         THEN Return(h, Caller(self, "call_mut", NameOf(SliceFrom(name, 9))))
    ELSE add_lens_optic(h, self, GetZoomAttrTraversal(NameOf(name)))

\* Lens.__getattr__ on the characters of the name
getattr_chars(h, self, name) ==
    IF endswith(name, Chars("_")) THEN Fail(h, "AttributeError")
    ELSE IF startswith(name, Chars("call_") \o Chars("mut_"))
         THEN Return(h, Caller(self, "call_mut", NameOf(SliceFrom(name, 9))))
    ELSE IF startswith(name, Chars("call_"))
         THEN Return(h, Caller(self, "call", NameOf(SliceFrom(name, 5))))
    ELSE add_lens_optic(h, self, GetZoomAttrTraversal(NameOf(name)))

\* caller called with args and the keywords shallow and state
caller(h, m, c, args, kwargs) ==
    IF c.target = "call_mut" THEN call_mut(h, m, c.n, c.method, args, kwargs)
    ELSE call(h, m, c.n, c.method, args, kwargs)

(***************************************************************************)
(* The state machine: a program that starts from one accessor, creates     *)
(* accessors from the ones it holds with statements `x = a.method(...)`,   *)
(* and ends with one call whose result it does not keep, a query or not.   *)
(* A call that raises ends the program too.  `last` records the latest     *)
(* call: the method, the accessor it was called on, its arguments and its  *)
(* outcome (kind, exc, ret, made), and whether the accessor it returned    *)
(* was kept (kept, obj).                                                   *)
(***************************************************************************)
Keys == 0..(MaxLen - 1)

Funcs == {Identity, Succ, Const(PyInt(MaxInt))}

\* the states handed to lens(), to bind and to the state= argument
BindStates == {PyNone, PyInt(0), Nothing, Just(PyInt(MaxInt))}
                 \cup {PyList([k \in 1..MaxLen |-> PyInt(k - 1)])}

QueryOps == {"get", "get_all", "get_monoid", "set", "modify", "construct"}

ComposeOps == {"add_lens", "getitem_", "__getitem__", "__getattr__"} \cup Builders

NoAccessor == [state |-> PyNone, lens |-> <<>>]

Kind(r) == IF r.exc # "none" THEN "raise" ELSE IF r.obj > 0 THEN "accessor" ELSE "value"

Call(op, self, other, st, v, f, r, keep) ==
    [op |-> op, self |-> self, other |-> other, st |-> st, v |-> v, f |-> f,
     kind |-> Kind(r), exc |-> r.exc, ret |-> r.ret,
     made |-> IF Kind(r) = "accessor" THEN r.heap[r.obj] ELSE NoAccessor,
     kept |-> keep,
     obj |-> IF keep THEN r.obj ELSE 0]

\* the program goes on while it keeps what its calls return
Running == last.kept

\* the accessor a call returns can be kept when there is room for it; no
\* optic is made of more than MaxChain optics
CanKeep(r, keep) ==
    IF Kind(r) # "accessor" THEN ~keep
    ELSE IF Len(r.heap[r.obj].lens) > MaxChain THEN FALSE
    ELSE IF keep THEN Len(heap) < MaxObjs
    ELSE TRUE

\* the objects that outlive a call: an accessor that is not kept is dropped,
\* and so is the one a query binds for its own use
After(r, keep) == IF keep THEN r.heap ELSE SubSeq(r.heap, 1, Len(heap))

Start == Call("lens", 0, 0, PyNone, PyNone, Identity, Return(<<>>, PyNone), TRUE)

\* lens() and lens(state)
Init ==
    /\ \E s \in BindStates : heap = <<Lens__init__(s, <<>>)>>
    /\ last = Start
    /\ mem = <<>>

Bind ==
    \E self \in 1..Len(heap), s \in BindStates, keep \in BOOLEAN :
       LET r == bind(heap, self, s)
       IN  /\ Running
           /\ CanKeep(r, keep)
           /\ heap' = After(r, keep)
           /\ last' = Call("bind", self, 0, s, PyNone, Identity, r, keep)
           /\ mem' = mem

AddLens ==
    \E self \in 1..Len(heap), other \in 1..Len(heap), keep \in BOOLEAN :
       LET r == add_lens(heap, self, other)
       IN  /\ Running
           /\ CanKeep(r, keep)
           /\ heap' = After(r, keep)
           /\ last' = Call("add_lens", self, other, PyNone, PyNone, Identity, r, keep)
           /\ mem' = mem

AddLensOther ==
    \E self \in 1..Len(heap) :
       LET r == add_lens_other(heap, self)
       IN  /\ Running
           /\ heap' = After(r, FALSE)
           /\ last' = Call("add_lens", self, 0, PyNone, PyNone, Identity, r, FALSE)
           /\ mem' = mem

Build ==
    \E self \in 1..Len(heap), b \in Builders, keep \in BOOLEAN :
       LET r == build(heap, self, b)
       IN  /\ Running
           /\ CanKeep(r, keep)
           /\ heap' = After(r, keep)
           /\ last' = Call(b, self, 0, PyNone, PyNone, Identity, r, keep)
           /\ mem' = mem

Getitem ==
    \E self \in 1..Len(heap), key \in Keys, keep \in BOOLEAN :
       LET r == getitem_(heap, self, key)
       IN  /\ Running
           /\ CanKeep(r, keep)
           /\ heap' = After(r, keep)
           /\ last' = Call("getitem_", self, 0, PyNone, PyInt(key), Identity, r, keep)
           /\ mem' = mem

GetitemSugar ==
    \E self \in 1..Len(heap), key \in Keys, keep \in BOOLEAN :
       LET r == Lens__getitem__(heap, self, key)
       IN  /\ Running
           /\ CanKeep(r, keep)
           /\ heap' = After(r, keep)
           /\ last' = Call("__getitem__", self, 0, PyNone, PyInt(key), Identity, r, keep)
           /\ mem' = mem

GetattrSugar ==
    \E self \in 1..Len(heap), name \in AttrNames, keep \in BOOLEAN :
       LET r == Lens__getattr__(heap, self, name)
       IN  /\ Running
           /\ CanKeep(r, keep)
           /\ heap' = After(r, keep)
           /\ last' = Call("__getattr__", self, 0, PyNone, PyNone, Identity, r, keep)
           /\ mem' = mem

Flip ==
    \E self \in 1..Len(heap), keep \in BOOLEAN :
       LET r == flip(heap, self)
       IN  /\ Running
           /\ CanKeep(r, keep)
           /\ heap' = After(r, keep)
           /\ last' = Call("flip", self, 0, PyNone, PyNone, Identity, r, keep)
           /\ mem' = mem

Get ==
    \E self \in 1..Len(heap), st \in BindStates :
       LET r == get(heap, self, st)
       IN  /\ Running
           /\ heap' = After(r, FALSE)
           /\ last' = Call("get", self, 0, st, PyNone, Identity, r, FALSE)
           /\ mem' = mem

GetAll ==
    \E self \in 1..Len(heap), st \in BindStates :
       LET r == get_all(heap, self, st)
       IN  /\ Running
           /\ heap' = After(r, FALSE)
           /\ last' = Call("get_all", self, 0, st, PyNone, Identity, r, FALSE)
           /\ mem' = mem

\* view is specified for one focus or more
ViewDefined(object, st) ==
    LET l == to_list_of(object.lens, IF st # PyNone THEN st ELSE object.state)
    IN  IF l.exc # "none" THEN TRUE ELSE l.val.items # <<>>

GetMonoid ==
    \E self \in 1..Len(heap), st \in BindStates :
       LET r == get_monoid(heap, self, st)
       IN  /\ Running
           /\ ViewDefined(heap[self], st)
           /\ heap' = After(r, FALSE)
           /\ last' = Call("get_monoid", self, 0, st, PyNone, Identity, r, FALSE)
           /\ mem' = mem

Set ==
    \E self \in 1..Len(heap), v \in Ints, st \in BindStates :
       LET r == set(heap, self, v, st)
       IN  /\ Running
           /\ heap' = After(r, FALSE)
           /\ last' = Call("set", self, 0, st, v, Identity, r, FALSE)
           /\ mem' = mem

Modify ==
    \E self \in 1..Len(heap), f \in Funcs, st \in BindStates :
       LET r == modify(heap, self, f, st)
       IN  /\ Running
           /\ heap' = After(r, FALSE)
           /\ last' = Call("modify", self, 0, st, PyNone, f, r, FALSE)
           /\ mem' = mem

Construct ==
    \E self \in 1..Len(heap), focus \in BindStates :
       LET r == construct(heap, self, focus)
       IN  /\ Running
           /\ heap' = After(r, FALSE)
           /\ last' = Call("construct", self, 0, focus, PyNone, Identity, r, FALSE)
           /\ mem' = mem

Next ==
    \/ Bind
    \/ AddLens
    \/ AddLensOther
    \/ Build
    \/ Getitem
    \/ GetitemSugar
    \/ GetattrSugar
    \/ Flip
    \/ Get
    \/ GetAll
    \/ GetMonoid
    \/ Set
    \/ Modify
    \/ Construct

Spec == Init /\ [][Next]_vars

(***************************************************************************)
(* The queries on one accessor of any optic: the program starts from       *)
(* Lens(state, optic) and makes one query.                                 *)
(***************************************************************************)
LeafOptics ==
    {BuilderOptic(b) : b \in Builders} \cup {GetitemLens(key) : key \in Keys}
       \cup {GetZoomAttrTraversal("left")}

RECURSIVE Chains(_)
Chains(n) ==
    IF n = 0 THEN {TrivialIso}
    ELSE Chains(n - 1) \cup {compose(c, o) : c \in Chains(n - 1), o \in LeafOptics}

InitQ ==
    /\ \E s \in PyValues, c \in Chains(MaxChain) : heap = <<Lens__init__(s, <<c>>)>>
    /\ last = Start
    /\ mem = <<>>

NextQ ==
    \/ Get
    \/ GetAll
    \/ GetMonoid
    \/ Set
    \/ Modify
    \/ Construct

SpecQ == InitQ /\ [][NextQ]_vars

(***************************************************************************)
(* The laws of the optics: the program builds an unbound accessor          *)
(* c = Lens(None, optic), binds it, b = c.bind(s), makes one query, and    *)
(* may hand the value the query returned to a second query:                *)
(*     c.get(state=b.set(v))          op "set;get"                         *)
(*     b.set(b.get())                 op "get;set"                         *)
(*     c.construct(b.get())           op "get;construct"                   *)
(*     c.get(state=c.construct(x))    op "construct;get"                   *)
(***************************************************************************)
Strs == {PyStr(k) : k \in 0..MaxInt}

\* the keys of the dicts
DictKeys == {0, 1}

Dicts ==
    {PyDict(kvs) : kvs \in {xs \in SeqsUpTo({PyTuple(<<PyInt(k), v>>) : k \in DictKeys, v \in Ints}, 2) :
                              \A i \in 1..Len(xs) : \A j \in 1..Len(xs) :
                                 i < j => xs[i].items[1].n < xs[j].items[1].n}}

\* the states the accessor is bound to
LawStates ==
    Ints \cup Strs \cup Lists \cup Dicts \cup Maybes
       \cup {PyList(<<x>>) : x \in Strs \cup Dicts}

\* the values handed to set and to construct
LawFoci ==
    Ints \cup Strs \cup {PyList(<<x>>) : x \in Ints}
       \cup {PyList(<<PyInt(0), PyInt(MaxInt)>>)}

LawFuncs == {Identity, Succ}

\* getitem_, get_, iso_, norm_, listwrap_, each_, just_, instance_
LawOptics ==
    {GetitemLens(key) : key \in Keys}
       \cup {GetitemOrElseLens(key, d) : key \in DictKeys, d \in {PyNone, PyInt(0)}}
       \cup {Isomorphism(Succ, Pred), Isomorphism(Neg, Neg), NormalisingIso(IntOf),
             ListWrapIso}
       \cup {EachTraversal, JustPrism, InstancePrism("int")}

RECURSIVE LawChains(_)
LawChains(n) ==
    IF n = 0 THEN {TrivialIso}
    ELSE LawChains(n - 1) \cup {compose(c, o) : c \in LawChains(n - 1), o \in LawOptics}

InitL ==
    /\ \E s \in LawStates, c \in LawChains(MaxChain) :
          heap = <<Lens__init__(PyNone, <<c>>), Lens__init__(s, <<c>>)>>
    /\ last = Start
    /\ mem = <<>>

LawGet ==
    LET r == get(heap, 2, PyNone)
    IN  /\ Running
        /\ heap' = After(r, FALSE)
        /\ last' = Call("get", 2, 0, PyNone, PyNone, Identity, r, FALSE)
        /\ mem' = mem

LawSet ==
    \E v \in LawFoci :
       LET r == set(heap, 2, v, PyNone)
       IN  /\ Running
           /\ heap' = After(r, FALSE)
           /\ last' = Call("set", 2, 0, PyNone, v, Identity, r, FALSE)
           /\ mem' = mem

LawModify ==
    \E f \in LawFuncs :
       LET r == modify(heap, 2, f, PyNone)
       IN  /\ Running
           /\ heap' = After(r, FALSE)
           /\ last' = Call("modify", 2, 0, PyNone, PyNone, f, r, FALSE)
           /\ mem' = mem

LawConstruct ==
    \E x \in LawFoci :
       LET r == construct(heap, 1, x)
       IN  /\ Running
           /\ heap' = After(r, FALSE)
           /\ last' = Call("construct", 1, 0, x, PyNone, Identity, r, FALSE)
           /\ mem' = mem

\* c.get(state=t) for the t that set or construct returned
GetOfResult ==
    LET r == get(heap, 1, last.ret)
    IN  /\ last.op \in {"set", "construct"}
        /\ last.kind = "value"
        /\ heap' = After(r, FALSE)
        /\ last' = Call(IF last.op = "set" THEN "set;get" ELSE "construct;get", 1, 0,
                        last.ret, IF last.op = "set" THEN last.v ELSE last.st,
                        Identity, r, FALSE)
        /\ mem' = mem

\* b.set(g) for the g that get returned
SetOfResult ==
    LET r == set(heap, 2, last.ret, PyNone)
    IN  /\ last.op = "get"
        /\ last.kind = "value"
        /\ heap' = After(r, FALSE)
        /\ last' = Call("get;set", 2, 0, PyNone, last.ret, Identity, r, FALSE)
        /\ mem' = mem

\* c.construct(g) for the g that get returned
ConstructOfResult ==
    LET r == construct(heap, 1, last.ret)
    IN  /\ last.op = "get"
        /\ last.kind = "value"
        /\ heap' = After(r, FALSE)
        /\ last' = Call("get;construct", 1, 0, last.ret, PyNone, Identity, r, FALSE)
        /\ mem' = mem

NextL ==
    \/ LawGet
    \/ LawSet
    \/ LawModify
    \/ LawConstruct
    \/ GetOfResult
    \/ SetOfResult
    \/ ConstructOfResult

SpecL == InitL /\ [][NextL]_vars

(***************************************************************************)
(* The two groupings of a composition: from three unbound accessors a, b   *)
(* and c the program makes                                                 *)
(*     ab = a.add_lens(b); ab_c = ab.add_lens(c)                           *)
(*     bc = b.add_lens(c); a_bc = a.add_lens(bc)                           *)
(* which become the objects 4, 5, 6 and 7, and ends with one query with a  *)
(* state argument on an accessor it holds.                                 *)
(***************************************************************************)
InitA ==
    /\ \E a \in Chains(1), b \in Chains(1), c \in Chains(1) :
          heap = <<Lens__init__(PyNone, <<a>>), Lens__init__(PyNone, <<b>>),
                   Lens__init__(PyNone, <<c>>)>>
    /\ last = Start
    /\ mem = <<>>

\* the next add_lens call of the program
AddLensGrouped ==
    LET n == Len(heap)
        self == CASE n = 3 -> 1 [] n = 4 -> 4 [] n = 5 -> 2 [] OTHER -> 1
        other == CASE n = 3 -> 2 [] n = 4 -> 3 [] n = 5 -> 3 [] OTHER -> 6
        r == add_lens(heap, self, other)
    IN  /\ Running
        /\ n < 7
        /\ heap' = r.heap
        /\ last' = Call("add_lens", self, other, PyNone, PyNone, Identity, r, TRUE)
        /\ mem' = mem

NextA ==
    \/ AddLensGrouped
    \/ GetAll
    \/ Modify

SpecA == InitA /\ [][NextA]_vars

(***************************************************************************)
(* Calls that mutate: the state is the list mem[1] = [focus, other] where  *)
(* focus is a list of ints or a Stack and other a list; the program holds  *)
(* the unbound accessor of an index and the same accessor bound to the     *)
(* state, and makes one call_mut.                                          *)
(***************************************************************************)
IntSeqs == SeqsUpTo(Ints, MaxLen)

InitM ==
    /\ \E xs \in IntSeqs, stack \in BOOLEAN :
          mem = <<Cell("list", <<Ref(2), Ref(3)>>),
                  IF stack THEN Cell("Stack", <<Ref(4)>>) ELSE Cell("list", xs),
                  Cell("list", <<PyInt(MaxInt), PyInt(0)>>),
                  Cell("list", IF stack THEN xs ELSE <<>>)>>
    /\ \E key \in Keys :
          heap = <<Lens__init__(PyNone, <<GetitemLens(key)>>),
                   Lens__init__(Ref(1), <<GetitemLens(key)>>)>>
    /\ last = Start

CallMut ==
    \E self \in 1..Len(heap), method_name \in Methods,
       args \in {<<>>} \cup {<<x>> : x \in Ints}, shallow \in BOOLEAN,
       kwstate \in {<<>>, <<Ref(1)>>} :
       LET r == call_mut(heap, mem, self, method_name, args, Kwargs(shallow, kwstate))
       IN  /\ Running
           /\ heap' = After(r, FALSE)
           /\ mem' = r.mem
           /\ last' = Call("call_mut", self, 0,
                           IF kwstate = <<>> THEN PyNone ELSE kwstate[1],
                           PyNone, Identity, r, FALSE)
                         @@ [method |-> method_name, args |-> args, shallow |-> shallow]

NextM == CallMut

SpecM == InitM /\ [][NextM]_vars

(***************************************************************************)
(* Operators on an accessor: the program starts from Lens(state, optic)    *)
(* with an int or a list of ints as state and applies one operator to the  *)
(* accessor, `accessor + x`, `x + accessor`, `-accessor`, or looks up the  *)
(* name of a special method on it.                                         *)
(***************************************************************************)
Operands == Ints \cup {PyNone} \cup {PyList(xs) : xs \in SeqsUpTo(Ints, 1)}

OperatorOptics == {TrivialIso, EachTraversal} \cup {GetitemLens(key) : key \in Keys}

InitO ==
    /\ \E s \in Ints \cup Lists \cup {PyNone}, c \in OperatorOptics :
          heap = <<Lens__init__(s, <<c>>)>>
    /\ last = Start
    /\ mem = <<>>

Operator ==
    \E self \in 1..Len(heap), name \in ModelledDunders, x \in Operands :
       LET args == IF name \in Unary THEN <<>> ELSE <<x>>
           r == operation(heap, self, name, args)
       IN  /\ Running
           /\ heap' = After(r, FALSE)
           /\ last' = Call(name, self, 0, PyNone, PyTuple(args), DunderCall(name, args),
                           r, FALSE)
           /\ mem' = mem

GetattrDunder ==
    \E self \in 1..Len(heap), name \in transparent_dunders \cup InplaceDunders :
       LET r == getattr_dunder(heap, self, name)
       IN  /\ Running
           /\ heap' = After(r, FALSE)
           /\ last' = Call("getattr", self, 0, PyNone, PyNone, DunderCall(name, <<>>),
                           r, FALSE)
           /\ mem' = mem

NextO ==
    \/ Operator
    \/ GetattrDunder

SpecO == InitO /\ [][NextO]_vars

(***************************************************************************)
(* Flipping: the program starts from Lens(state, optic), flips it and may  *)
(* keep the flipped accessor, f = a.flip(), to flip it again or to call    *)
(* f.get(state=x).                                                         *)
(***************************************************************************)
InitF ==
    /\ \E s \in {PyNone, PyInt(0)}, c \in LawChains(MaxChain) :
          heap = <<Lens__init__(s, <<c>>)>>
    /\ last = Start
    /\ mem = <<>>

NextF ==
    \/ Flip
    \/ Get

SpecF == InitF /\ [][NextF]_vars

(***************************************************************************)
(* Composition of two accessors: the program holds a = Lens(s1, c1) and    *)
(* b = Lens(s2, c2), bound or not, and calls add_lens or a builder on one  *)
(* of them.                                                                *)
(***************************************************************************)
InitC ==
    /\ \E s1 \in {PyNone, PyInt(0)}, s2 \in {PyNone, PyInt(0)},
          c1 \in Chains(1), c2 \in Chains(1) :
          heap = <<Lens__init__(s1, <<c1>>), Lens__init__(s2, <<c2>>)>>
    /\ last = Start
    /\ mem = <<>>

NextC ==
    \/ AddLens
    \/ AddLensOther
    \/ Build

SpecC == InitC /\ [][NextC]_vars

(***************************************************************************)
(* Attribute and index access: on the accessors of the call_mut runs the   *)
(* program reads an attribute, `f = a.name`, and calls what it got when    *)
(* that is a function, `f(args)`; or it indexes the accessor.              *)
(***************************************************************************)
AttrSpellings ==
    {Chars("left"), Chars("left") \o Chars("_"), Chars("callsort"),
     Chars("call_"), Chars("call_") \o Chars("mut_"),
     Chars("call_") \o Chars("sort"), Chars("call_") \o Chars("copy"),
     Chars("call_") \o Chars("sort") \o Chars("_"),
     Chars("call_") \o Chars("mut_") \o Chars("sort"),
     Chars("call_") \o Chars("mut_") \o Chars("copy"),
     Chars("call_") \o Chars("mut_") \o Chars("sort") \o Chars("_")}

Getattr ==
    \E self \in 1..Len(heap), name \in AttrSpellings :
       LET r == getattr_chars(heap, self, name)
       IN  /\ Running
           /\ heap' = After(r, FALSE)
           /\ mem' = mem
           /\ last' = Call("__getattr__", self, 0, PyNone, PyNone, Identity, r, FALSE)
                         @@ [name |-> name]

\* f(args) for the function f that the attribute access returned
CallCaller ==
    \E args \in {<<>>, <<PyInt(0)>>}, sh \in BOOLEAN, kwstate \in {<<>>, <<Ref(1)>>} :
       LET shallow == sh /\ last.ret.target = "call_mut"
           r == caller(heap, mem, last.ret, args, Kwargs(shallow, kwstate))
       IN  /\ last.op = "__getattr__"
           /\ last.kind = "value"
           /\ sh => last.ret.target = "call_mut"
           /\ heap' = After(r, FALSE)
           /\ mem' = r.mem
           /\ last' = Call("caller", last.self, 0,
                           IF kwstate = <<>> THEN PyNone ELSE kwstate[1],
                           PyNone, Identity, r, FALSE)
                         @@ [name |-> last.name, args |-> args, shallow |-> shallow,
                             kwstate |-> kwstate]

NextD ==
    \/ Getattr
    \/ CallCaller
    \/ Getitem
    \/ GetitemSugar

SpecD == InitM /\ [][NextD]_vars

(***************************************************************************)
(* Kinds of composites: the program starts from an unbound accessor of an  *)
(* optic of one kind, a = lens().method(), composes an optic of a kind     *)
(* onto it, b = a.method(), and calls get_all(state=s) on what it holds.   *)
(***************************************************************************)
\* one optic of each kind that reads its foci; the empty optic is the
\* Equality
KindChains ==
    {TrivialIso, ListWrapIso, GetitemLens(0), JustPrism, InstancePrism("list"),
     EachTraversal, Getter(Succ), IterableFold}

InitK ==
    /\ \E c \in KindChains : heap = <<Lens__init__(PyNone, <<c>>)>>
    /\ last = Start
    /\ mem = <<>>

\* a builder method of the accessor that makes the optic c
AddOptic ==
    \E self \in 1..Len(heap), c \in KindChains, keep \in BOOLEAN :
       LET r == add_lens_optic(heap, self, c)
       IN  /\ Running
           /\ CanKeep(r, keep)
           /\ heap' = After(r, keep)
           /\ last' = Call("add_lens_optic", self, 0, PyNone, PyNone, Identity, r, keep)
           /\ mem' = mem

NextK ==
    \/ AddOptic
    \/ GetAll

SpecK == InitK /\ [][NextK]_vars

(***************************************************************************)
(* Exceptions of the caller: the program starts from Lens(state, optic)    *)
(* with an optic that holds an error_ step or a function that raises,      *)
(* composes error_ onto it or makes one query.                             *)
(***************************************************************************)
UserExceptions == {"UserError", "KeyError"}

ErrorChains ==
    {TrivialIso, GetitemLens(0)}
       \cup UNION {{ErrorIso(e), EachTraversal \o ErrorIso(e), GetitemLens(0) \o ErrorIso(e),
                    Isomorphism(Raising(e), Identity), Isomorphism(Identity, Raising(e)),
                    Getter(Raising(e))} : e \in UserExceptions}

InitE ==
    /\ \E s \in {PyNone, PyInt(0), PyList(<<>>), PyList(<<PyInt(0), PyInt(MaxInt)>>)},
          c \in ErrorChains :
          heap = <<Lens__init__(s, <<c>>)>>
    /\ last = Start
    /\ mem = <<>>

\* a.error_(e)
AddError ==
    \E self \in 1..Len(heap), e \in UserExceptions, keep \in BOOLEAN :
       LET r == add_lens_optic(heap, self, ErrorIso(e))
       IN  /\ Running
           /\ CanKeep(r, keep)
           /\ heap' = After(r, keep)
           /\ last' = Call("error_", self, 0, PyNone, PyNone, Identity, r, keep)
           /\ mem' = mem

\* a.modify(f) for a function f that raises
ModifyRaising ==
    \E self \in 1..Len(heap), e \in UserExceptions :
       LET r == modify(heap, self, Raising(e), PyNone)
       IN  /\ Running
           /\ heap' = After(r, FALSE)
           /\ last' = Call("modify", self, 0, PyNone, PyNone, Raising(e), r, FALSE)
           /\ mem' = mem

NextE ==
    \/ AddError
    \/ ModifyRaising
    \/ Get
    \/ GetAll
    \/ Set
    \/ Modify

SpecE == InitE /\ [][NextE]_vars

(***************************************************************************)
(* Prisms: the program starts from Lens(state, optic), composes a          *)
(* filter_ step onto it or sets or modifies through it.                    *)
(***************************************************************************)
Predicates == {Bool, OperatorCall("__lt__", <<PyInt(MaxInt)>>)}

PrismChains ==
    {JustPrism, InstancePrism("int"), InstancePrism("list"), EachTraversal}
       \cup {FilteringPrism(p) : p \in Predicates}

InitP ==
    /\ \E s \in States \cup {PyList(<<PyInt(0), PyNone>>)}, c \in PrismChains :
          heap = <<Lens__init__(s, <<c>>)>>
    /\ last = Start
    /\ mem = <<>>

\* a.filter_(p)
AddFilter ==
    \E self \in 1..Len(heap), p \in Predicates, keep \in BOOLEAN :
       LET r == add_lens_optic(heap, self, FilteringPrism(p))
       IN  /\ Running
           /\ CanKeep(r, keep)
           /\ heap' = After(r, keep)
           /\ last' = Call("filter_", self, 0, PyNone, PyNone, p, r, keep)
           /\ mem' = mem

NextP ==
    \/ AddFilter
    \/ Set
    \/ Modify

SpecP == InitP /\ [][NextP]_vars

(***************************************************************************)
(* Binding to falsy targets: the program starts from lens() or             *)
(* lens(state), binds an accessor to None or to a falsy or truthy target,  *)
(* or makes one query.                                                     *)
(***************************************************************************)
Targets == {PyNone, PyInt(0), PyBool(FALSE), PyList(<<>>), EmptyStr, PyInt(MaxInt)}

\* a.bind(target)
BindTarget ==
    \E self \in 1..Len(heap), s \in Targets, keep \in BOOLEAN :
       LET r == bind(heap, self, s)
       IN  /\ Running
           /\ CanKeep(r, keep)
           /\ heap' = After(r, keep)
           /\ last' = Call("bind", self, 0, s, PyNone, Identity, r, keep)
           /\ mem' = mem

NextB ==
    \/ BindTarget
    \/ Get
    \/ GetAll
    \/ Set
    \/ Modify

SpecB == Init /\ [][NextB]_vars

(***************************************************************************)
(* The state keyword: the program starts from lens() and lens(s), where s  *)
(* may be a list object, and makes one query, with or without a state, or  *)
(* calls call or call_mut with keyword arguments.                          *)
(***************************************************************************)
KeywordArguments ==
    [state : {<<>>, <<Ref(1)>>},
     shallow : {<<>>, <<PyBool(TRUE)>>, <<PyBool(FALSE)>>},
     reverse : {<<>>, <<PyBool(TRUE)>>}]

InitS ==
    /\ \E xs \in IntSeqs : mem = <<Cell("list", xs)>>
    /\ \E c \in {TrivialIso, JustPrism}, s \in {Ref(1), Just(PyInt(0)), PyInt(0)} :
          heap = <<Lens__init__(PyNone, <<c>>), Lens__init__(s, <<c>>)>>
    /\ last = Start

\* a.call(method_name, **kwargs), a.call_mut(method_name, **kwargs) on an
\* accessor of the identity optic or of indices
CallKw ==
    \E self \in 1..Len(heap), target \in {"call", "call_mut"},
       method_name \in {"sort", "copy", "reverse"}, kwargs \in KeywordArguments :
       LET r == IF target = "call_mut"
                THEN call_mut(heap, mem, self, method_name, <<>>, kwargs)
                ELSE call(heap, mem, self, method_name, <<>>, kwargs)
       IN  /\ Running
           /\ \A i \in 1..Len(heap[self].lens) : heap[self].lens[i].cls = "GetitemLens"
           /\ heap' = After(r, FALSE)
           /\ mem' = r.mem
           /\ last' = Call(target, self, 0,
                           IF kwargs.state = <<>> THEN PyNone ELSE kwargs.state[1],
                           PyNone, Identity, r, FALSE)
                         @@ [method |-> method_name, kwargs |-> kwargs]

NextS ==
    \/ CallKw
    \/ Get
    \/ GetAll
    \/ GetMonoid
    \/ Set
    \/ Modify
    \/ Construct

SpecS == InitS /\ [][NextS]_vars

(***************************************************************************)
(* Unbound accessors: the program starts from two unbound accessors,       *)
(* a = lens() or lens()[k], and applies an operator to one of them, with a *)
(* value or an accessor as the other operand, calls call or call_mut, or   *)
(* reads a call_X attribute and calls what it got.                         *)
(***************************************************************************)
InitU ==
    /\ \E xs \in IntSeqs : mem = <<Cell("list", xs)>>
    /\ \E c1 \in {TrivialIso, GetitemLens(0)}, c2 \in {TrivialIso, GetitemLens(0)} :
          heap = <<Lens__init__(PyNone, <<c1>>), Lens__init__(PyNone, <<c2>>)>>
    /\ last = Start

\* a op x, x op a, op a, for a value x or an accessor x
Operate ==
    \E self \in 1..Len(heap), name \in ModelledDunders,
       x \in Operands \cup {LensObject(i) : i \in 1..Len(heap)} :
       LET args == IF name \in Unary THEN <<>> ELSE <<x>>
           r == operation(heap, self, name, args)
       IN  /\ Running
           /\ heap' = After(r, FALSE)
           /\ last' = Call(name, self, 0, PyNone, PyTuple(args), DunderCall(name, args),
                           r, FALSE)
           /\ mem' = mem

NextU ==
    \/ Operate
    \/ CallKw
    \/ Getattr
    \/ CallCaller

SpecU == InitU /\ [][NextU]_vars

(***************************************************************************)
(* Accessors as class attributes: the program starts from lens() or        *)
(* lens(state) stored in a class, extends it, reads it through the class   *)
(* or through an instance, or makes one query.                             *)
(***************************************************************************)
\* C.attribute (instance None) and instance.attribute
ReadAttribute ==
    \E self \in 1..Len(heap), instance \in Targets, keep \in BOOLEAN :
       LET r == Lens__get__(heap, self, instance)
       IN  /\ Running
           /\ CanKeep(r, keep)
           /\ heap' = After(r, keep)
           /\ last' = Call("__get__", self, 0, instance, PyNone, Identity, r, keep)
                         @@ [res |-> r.obj]
           /\ mem' = mem

NextG ==
    \/ ReadAttribute
    \/ Getitem
    \/ Get
    \/ Set

SpecG == Init /\ [][NextG]_vars

(***************************************************************************)
(* The claims.  In each formula `last` is the call just made and           *)
(* heap[last.self] the accessor it was made on.                            *)
(***************************************************************************)
Self == heap[last.self]

Bound(object) == object.state # PyNone

\* the foci of the accessor the last call was made on
SelfFoci == to_list_of(Self.lens, Self.state)

\* C1: a query (get, get_all, get_monoid, set, modify, construct) made on
\* an unbound accessor without a state or focus argument raises ValueError
\* and returns nothing, whatever the optic.
C1_UnboundQueryRaises ==
    (last.op \in QueryOps /\ ~Bound(Self) /\ last.st = PyNone)
        => (last.kind = "raise" /\ last.exc = "ValueError" /\ last.ret = PyNone)

C1_Witness ==
    /\ last.op = "set"
    /\ ~Bound(Self)
    /\ last.st = PyNone
    /\ Self.lens # TrivialIso
    /\ last.exc = "ValueError"

\* C2 as stated: bind on a bound accessor raises ValueError for every s,
\* and bind(s) on an unbound accessor returns a bound accessor that carries
\* s and the same optic.
C2_BindReturnsBound ==
    last.op = "bind"
        => IF Bound(Self) THEN last.exc = "ValueError"
           ELSE /\ last.kind = "accessor"
                /\ Bound(last.made)
                /\ last.made.state = last.st
                /\ last.made.lens = Self.lens

\* C2 amended: bind on a bound accessor raises ValueError for every s;
\* bind(s) on an unbound accessor returns an accessor that carries s and the
\* same optic, and that accessor is bound exactly when s is not None.
C2_BindCarriesState ==
    last.op = "bind"
        => IF Bound(Self) THEN last.kind = "raise" /\ last.exc = "ValueError"
           ELSE /\ last.kind = "accessor"
                /\ last.made.state = last.st
                /\ last.made.lens = Self.lens
                /\ Bound(last.made) <=> last.st # PyNone

C2_Witness ==
    /\ last.op = "bind"
    /\ last.kind = "accessor"
    /\ last.st.t = "list"
    /\ Bound(last.made)
    /\ last.made.lens # TrivialIso

\* C3: no transition leaves Bound.  The accessor that a composition call
\* (add_lens, a builder, indexing, attribute access) on an accessor bound to
\* s returns is bound to s; and when the program starts from a bound
\* accessor, every accessor it ever obtains is bound to the same state.
C3_ComposeKeepsState ==
    /\ (last.op \in ComposeOps /\ last.kind = "accessor" /\ Bound(Self))
          => last.made.state = Self.state
    /\ Bound(heap[1])
          => /\ \A i \in 1..Len(heap) : heap[i].state = heap[1].state
             /\ last.kind = "accessor" => last.made.state = heap[1].state

C3_Witness ==
    /\ Len(heap) = 2
    /\ Bound(heap[1])
    /\ heap[2].lens # TrivialIso
    /\ last.op = "__getitem__"
    /\ last.self = 2
    /\ last.kind = "accessor"
    /\ Len(last.made.lens) = 2
    /\ last.made.state = heap[1].state

\* C4: no call changes an accessor that exists: its state and its optic
\* are after the call what they were before it, and an accessor that a call
\* returns is a new object.
C4_AccessorsImmutable ==
    [][/\ \A i \in 1..Len(heap) : Len(heap') >= i /\ heap'[i] = heap[i]
       /\ last'.kept => last'.obj = Len(heap) + 1]_vars

\* one unbound accessor bound to two different states in turn
C4_Witness ==
    /\ Len(heap) = 2
    /\ ~Bound(heap[1])
    /\ Bound(heap[2])
    /\ last.op = "bind"
    /\ last.self = 1
    /\ last.kind = "accessor"
    /\ Bound(last.made)
    /\ last.made.state # heap[2].state

\* C5 as stated: a composition call on a bound accessor is rejected, and
\* a query on an unbound accessor is rejected.
C5_BoundRejectsCompose ==
    /\ (last.op \in ComposeOps /\ Bound(Self)) => last.kind = "raise"
    /\ (last.op \in QueryOps /\ ~Bound(Self) /\ last.st = PyNone) => last.kind = "raise"

\* C5 amended: a composition call on a bound accessor is accepted and
\* returns an accessor bound to the same state (add_lens raises only for
\* what it is given, attribute access only for a name that ends in '_');
\* the calls rejected on a bound accessor are bind and flip, with
\* ValueError; a query on an unbound accessor without a state argument is
\* rejected with ValueError, and a composition call on an unbound accessor
\* is accepted.
C5_BoundAcceptsCompose ==
    /\ last.op \in ComposeOps
          => \/ last.kind = "accessor" /\ last.made.state = Self.state
             \/ /\ last.op = "add_lens"
                /\ last.kind = "raise"
                /\ IF last.other = 0 THEN last.exc = "TypeError"
                   ELSE last.exc = "ValueError" /\ Bound(heap[last.other])
             \/ last.op = "__getattr__" /\ last.kind = "raise" /\ last.exc = "AttributeError"
    /\ (last.op \in {"bind", "flip"} /\ Bound(Self))
          => last.kind = "raise" /\ last.exc = "ValueError"
    /\ (last.op \in QueryOps /\ ~Bound(Self) /\ last.st = PyNone)
          => last.kind = "raise" /\ last.exc = "ValueError"

C5_Witness ==
    /\ last.op = "each_"
    /\ Bound(Self)
    /\ last.kind = "accessor"
    /\ last.made.state = Self.state
    /\ last.made.lens = compose(Self.lens, EachTraversal)

\* the optic of the accessor is of Traversal, Prism or Fold kind
ManyFocusKind(chain) == ChainKind(chain) \in {"Traversal", "Prism", "Fold"}

\* C6: on a bound accessor whose optic yields at least one focus, get()
\* returns the first element of get_all(), and get_all() returns the whole
\* of to_list_of(state), in order.
C6_GetIsFirstOfGetAll ==
    (last.op \in {"get", "get_all"} /\ Bound(Self) /\ last.st = PyNone
        /\ SelfFoci.exc = "none")
        => /\ last.op = "get_all" => last.kind = "value" /\ last.ret = SelfFoci.val
           /\ (last.op = "get" /\ SelfFoci.val.items # <<>>)
                 => /\ last.kind = "value"
                    /\ get_all(heap, last.self, PyNone).exc = "none"
                    /\ last.ret = get_all(heap, last.self, PyNone).ret.items[1]

C6_Witness ==
    /\ last.op = "get"
    /\ Bound(Self)
    /\ last.kind = "value"
    /\ Len(SelfFoci.val.items) >= 2
    /\ SelfFoci.val.items[1] # SelfFoci.val.items[Len(SelfFoci.val.items)]
    /\ last.ret = SelfFoci.val.items[1]

\* C7 as stated: get() on a bound accessor whose optic is of Traversal,
\* Prism or Fold kind is not a valid call.
C7_GetNeedsLensKind ==
    (last.op = "get" /\ Bound(Self) /\ last.st = PyNone /\ ManyFocusKind(Self.lens))
        => last.kind = "raise"

\* C7 amended: get() makes no check of the kind of the optic.  On a bound
\* accessor whose optic is of Traversal, Prism or Fold kind it returns the
\* first focus when the optic yields one or more, raises IndexError when
\* the optic yields none, and raises what the optic raises otherwise.
C7_GetTakesFirstFocus ==
    (last.op = "get" /\ Bound(Self) /\ last.st = PyNone /\ ManyFocusKind(Self.lens))
        => IF SelfFoci.exc # "none" THEN last.kind = "raise" /\ last.exc = SelfFoci.exc
           ELSE IF SelfFoci.val.items = <<>>
                THEN last.kind = "raise" /\ last.exc = "IndexError"
           ELSE last.kind = "value" /\ last.ret = SelfFoci.val.items[1]

C7_Witness ==
    /\ last.op = "get"
    /\ Bound(Self)
    /\ Self.lens = BothTraversal
    /\ last.kind = "value"
    /\ last.ret = Self.state.items[1]

\* C8: get() on a bound accessor whose optic yields no focus for the
\* bound state raises IndexError and returns no value.
C8_GetOfNoFocusRaises ==
    (last.op = "get" /\ Bound(Self) /\ last.st = PyNone
        /\ SelfFoci.exc = "none" /\ SelfFoci.val.items = <<>>)
        => (last.kind = "raise" /\ last.exc = "IndexError" /\ last.ret = PyNone)

C8_Witness ==
    /\ last.op = "get"
    /\ Self.state = PyInt(1)
    /\ Self.lens = InstancePrism("list")
    /\ last.exc = "IndexError"

\* a Prism or Fold step of the optic is handed one substate or more and
\* finds no focus in any of them
StepMisses(chain, s) ==
    \E k \in 1..Len(chain) :
       /\ KindOf(chain[k]) \in {"Prism", "Fold"}
       /\ to_list_of(SubSeq(chain, 1, k - 1), s).exc = "none"
       /\ to_list_of(SubSeq(chain, 1, k - 1), s).val.items # <<>>
       /\ to_list_of(SubSeq(chain, 1, k), s).exc = "none"
       /\ to_list_of(SubSeq(chain, 1, k), s).val.items = <<>>

\* C9: get_all() on a bound accessor whose optic has a Prism or Fold step
\* that finds no focus returns the empty list and does not raise.
C9_GetAllOfMissIsEmpty ==
    (last.op = "get_all" /\ Bound(Self) /\ last.st = PyNone
        /\ StepMisses(Self.lens, Self.state))
        => (last.kind = "value" /\ last.ret = PyList(<<>>))

\* just_ on Nothing, and a miss after a step that found foci
C9_Witness ==
    /\ last.op = "get_all"
    /\ Bound(Self)
    /\ Len(Self.lens) = 2
    /\ Self.lens[2].cls \in {"JustPrism", "IterableFold"}
    /\ StepMisses(Self.lens, Self.state)
    /\ last.ret = PyList(<<>>)

LensKind(chain) == KindRank(ChainKind(chain)) >= KindRank("Lens")

\* no step of the optic is made by get_ or norm_
NoDefaulting(chain) ==
    \A k \in 1..Len(chain) : chain[k].cls \notin {"GetitemOrElseLens", "NormalisingIso"}

\* what get_ focuses in the dict s
GetOrElse(o, s) == IF DictHas(s, o.key) THEN DictGet(s, o.key) ELSE o.default

Mirrored(o) == <<o.fwd, o.bwd>> \in {<<Succ, Pred>>, <<Pred, Succ>>, <<Neg, Neg>>}

PlainLens(chain) ==
    \A k \in 1..Len(chain) :
       \/ chain[k].cls \in {"GetitemLens", "GetitemOrElseLens"}
       \/ chain[k].cls = "Isomorphism" /\ Mirrored(chain[k])

SameOutcomeOn(other) ==
    LET r == IF last.op = "get_all" THEN get_all(heap, other, last.st)
             ELSE modify(heap, other, last.f, last.st)
    IN  r.exc = last.exc /\ r.ret = last.ret

ListWith(s, i, x) == PyList([k \in 1..Len(s.items) |-> IF k = i + 1 THEN x ELSE s.items[k]])

\* the accessor of index i bound to a list that has the index
IsIndexOfList(object, i) ==
    /\ object.lens = GetitemLens(i)
    /\ object.state.t = "list"
    /\ i < Len(object.state.items)

MethodOnValue(v, method_name, args) ==
    CASE method_name = "sort" -> [v EXCEPT !.items = SortInts(@)]
      [] method_name = "reverse" -> [v EXCEPT !.items = Reverse(@)]
      [] method_name = "append" -> [v EXCEPT !.items = Append(@, args[1])]
      [] method_name = "push" -> [v EXCEPT !.items[1].items = Append(@, args[1])]

C17_OperatorCallsSpecialMethod ==
    /\ (last.op \in ModelledDunders /\ Bound(Self))
          => /\ last.kind \in {"value", "raise"}
             /\ last.exc = modify(heap, last.self, DunderCall(last.op, last.v.items),
                                  PyNone).exc
             /\ last.ret = modify(heap, last.self, DunderCall(last.op, last.v.items),
                                  PyNone).ret
             /\ (SelfFoci.exc = "none"
                   /\ \A k \in 1..Len(SelfFoci.val.items) :
                         /\ SelfFoci.val.items[k].t = "int"
                         /\ last.v.items # <<>> => last.v.items[1].t = "int")
                  => /\ last.exc = modify(heap, last.self,
                                          OperatorCall(last.op, last.v.items), PyNone).exc
                     /\ last.ret = modify(heap, last.self,
                                          OperatorCall(last.op, last.v.items), PyNone).ret
    /\ (last.op = "getattr" /\ last.f.fn \in InplaceDunders)
          => last.kind = "raise" /\ last.exc = "AttributeError"

\* the state an isomorphism makes of the focus x
Backward(o, x) == Rebuild(o, PyNone, <<x>>)

\* the focus x taken backwards through the optic, last step first
RECURSIVE RunBackwards(_, _)
RunBackwards(chain, x) ==
    IF chain = <<>> THEN Ok(x)
    ELSE LET r == RunBackwards(Tail(chain), x)
         IN  IF r.exc # "none" THEN r ELSE Backward(Head(chain), r.val)

WellBehavedIsos(chain) ==
    \A k \in 1..Len(chain) : chain[k].cls = "Isomorphism" /\ Mirrored(chain[k])

SameOutcome(r1, r2) == r1.exc = r2.exc /\ r1.ret = r2.ret

C21_AddLens ==
    /\ last.op = "add_lens"
          => IF last.other = 0
             THEN last.kind = "raise" /\ last.exc = "TypeError" /\ last.made = NoAccessor
             ELSE IF Bound(heap[last.other])
             THEN last.kind = "raise" /\ last.exc = "ValueError" /\ last.made = NoAccessor
             ELSE /\ last.kind = "accessor"
                  /\ last.made.state = Self.state
                  /\ last.made.lens = Self.lens \o heap[last.other].lens
    /\ last.op \in Builders
          => /\ last.kind = "accessor"
             /\ last.made.state = Self.state
             /\ last.made.lens = Self.lens \o BuilderOptic(last.op)

\* a bound accessor composed with an unbound one of another optic
C21_Witness ==
    /\ last.op = "add_lens"
    /\ last.self = 1
    /\ last.other = 2
    /\ Bound(heap[1])
    /\ heap[1].lens = EachTraversal
    /\ heap[2].lens = GetitemLens(0)
    /\ last.kind = "accessor"
    /\ last.made = [state |-> heap[1].state, lens |-> EachTraversal \o GetitemLens(0)]

\* the call r has the outcome recorded in l and leaves the objects ms
SameCall(l, ms, r) == l.exc = r.exc /\ l.ret = r.ret /\ ms = r.mem

\* C22: attribute access with a name that ends in '_' raises
\* AttributeError, whatever its prefix; otherwise call_mut_X returns a
\* function whose call is call_mut('X', ...), call_X returns a function
\* whose call is call('X', ...), and any other name returns the accessor
\* getzoomattr_(name) returns.  call_mut_sort calls call_mut('sort'), not
\* call('mut_sort').  Reading the function makes no call.  a[k] returns the
\* accessor getitem_(k) returns.
C22_AttributeDispatch ==
    [][/\ last'.op = "__getattr__"
            => /\ heap' = heap /\ mem' = mem
               /\ IF last'.name[Len(last'.name)] = "_"
                  THEN last'.kind = "raise" /\ last'.exc = "AttributeError"
                  ELSE IF last'.name \in {Chars("left"), Chars("callsort")}
                  THEN /\ last'.kind = "accessor"
                       /\ last'.made.state = heap[last'.self].state
                       /\ last'.made.lens
                             = heap[last'.self].lens
                                 \o GetZoomAttrTraversal(IF last'.name = Chars("left")
                                                         THEN "left" ELSE "callsort")
                       /\ last'.made = getzoomattr_(heap, last'.self,
                                                    NameOf(last'.name)).heap[Len(heap) + 1]
                  ELSE last'.kind = "value" /\ last'.ret.t = "function"
       /\ last'.op = "caller"
            => LET a == last'.self
                   n == last'.name
                   x == last'.args
                   k == last'.kwstate
               IN  /\ n = Chars("call_") \o Chars("mut_") \o Chars("sort")
                         => SameCall(last', mem', call_mut(heap, mem, a, "sort", x,
                                                          Kwargs(last'.shallow, k)))
                   /\ n = Chars("call_") \o Chars("mut_") \o Chars("copy")
                         => SameCall(last', mem', call_mut(heap, mem, a, "copy", x,
                                                          Kwargs(last'.shallow, k)))
                   /\ n = Chars("call_") \o Chars("sort")
                         => SameCall(last', mem', call(heap, mem, a, "sort", x, Kwargs(FALSE, k)))
                   /\ n = Chars("call_") \o Chars("copy")
                         => SameCall(last', mem', call(heap, mem, a, "copy", x, Kwargs(FALSE, k)))
       /\ last'.op = "__getitem__"
            => /\ last'.kind = "accessor"
               /\ last'.made = getitem_(heap, last'.self, last'.v.n).heap[Len(heap) + 1]
               /\ last'.made.lens = heap[last'.self].lens \o GetitemLens(last'.v.n)]_vars

\* f = a.call_mut_sort; f() on a[0] of [[1, 0], [MaxInt, 0]]: a new state
\* with the sorted copy, where call('mut_sort') raises AttributeError
C22_Witness ==
    /\ last.op = "caller"
    /\ last.name = Chars("call_") \o Chars("mut_") \o Chars("sort")
    /\ last.self = 2
    /\ heap[2].lens = GetitemLens(0)
    /\ mem[2].items = <<PyInt(1), PyInt(0)>>
    /\ last.kind = "value"
    /\ Value(mem, last.ret).items[1].items = <<PyInt(0), PyInt(1)>>
    /\ call(heap, mem, 2, "mut_sort", <<>>, NoKwargs).exc = "AttributeError"

\* the kinds that read their foci, and the number of foci each allows
ReadingKinds ==
    {"Fold", "Getter", "Traversal", "Prism", "Lens", "Isomorphism", "Equality"}

AtLeastOne(kind) == kind \in {"Getter", "Lens", "Isomorphism", "Equality"}

AtMostOne(kind) == kind \notin {"Fold", "Traversal"}

\* the kind that has what both kinds have: the weaker of the two when one
\* has everything the other has, and Fold for a Getter with a Traversal
\* or a Prism
CompositeKind(outer, inner) ==
    IF "Fold" \in {outer, inner} THEN "Fold"
    ELSE IF "Getter" \in {outer, inner}
         THEN IF {outer, inner} \cap {"Traversal", "Prism"} # {} THEN "Fold" ELSE "Getter"
    ELSE combine_kind(outer, inner)

\* the kinds of the optic the accessor started with and of the optic
\* composed onto it
OuterKind == ChainKind(heap[1].lens)

InnerKind == ChainKind(SubSeq(Self.lens, Len(heap[1].lens) + 1, Len(Self.lens)))

\* get_all returned a number of foci that the kind allows
FociAllowedBy(kind) ==
    /\ AtLeastOne(kind) => Len(last.ret.items) >= 1
    /\ AtMostOne(kind) => Len(last.ret.items) <= 1

RECURSIVE Down(_, _)
Down(chain, s) ==
    IF chain = <<>> THEN [exc |-> "none", foc |-> TRUE, val |-> s]
    ELSE LET o == Head(chain)
         IN  CASE o.cls = "ErrorIso" -> [exc |-> o.name, foc |-> FALSE, val |-> PyNone]
               [] o.cls \in {"Isomorphism", "Getter"} /\ o.fwd.fn = "raise" ->
                     [exc |-> o.fwd.name, foc |-> FALSE, val |-> PyNone]
               [] o.cls = "Isomorphism" /\ o.fwd = Identity -> Down(Tail(chain), s)
               [] o.cls = "GetitemLens" /\ s.t = "list" /\ Len(s.items) > 0 ->
                     Down(Tail(chain), s.items[1])
               [] o.cls = "EachTraversal" /\ s.t = "list" ->
                     IF Len(s.items) = 0 THEN [exc |-> "none", foc |-> FALSE, val |-> PyNone]
                     ELSE Down(Tail(chain), s.items[1])
               [] OTHER -> [exc |-> "other", foc |-> FALSE, val |-> PyNone]

\* the way back up: the innermost function of the caller that raises when
\* the state is rebuilt
Up(chain) ==
    LET raising == {i \in 1..Len(chain) :
                      chain[i].cls = "Isomorphism" /\ chain[i].bwd.fn = "raise"}
    IN  IF \E i \in 1..Len(chain) : chain[i].cls = "Getter" THEN "other"
        ELSE IF raising = {} THEN "none"
        ELSE chain[CHOOSE i \in raising : \A j \in raising : j <= i].bwd.name

\* the exception a query meets first
Expected(chain, s, op, f) ==
    IF Down(chain, s).exc # "none" THEN Down(chain, s).exc
    ELSE IF op \in {"get", "get_all"} THEN "none"
    ELSE IF op = "modify" /\ Down(chain, s).foc /\ Apply(f, Down(chain, s).val).exc # "none"
         THEN Apply(f, Down(chain, s).val).exc
    ELSE Up(chain)

Absent(o, s) ==
    CASE o.cls = "InstancePrism" -> s.t # o.name
      [] o.cls = "JustPrism" -> s = Nothing
      [] o.cls = "FilteringPrism" ->
            Apply(o.fwd, s).exc = "none" /\ ~Truth(Apply(o.fwd, s).val)
      [] OTHER -> FALSE

\* the predicate p holds of x
Satisfies(p, x) == Apply(p, x).exc = "none" /\ Truth(Apply(p, x).val)

\* what the latest set or modify puts in the place of the focus x
Replacement(x) == IF last.op = "set" THEN Ok(last.v) ELSE Apply(last.f, x)

\* the predicate of the innermost step of an accessor
Filter(object) == object.lens[Len(object.lens)].fwd

\* the optic of each_().filter_(p), on a list whose elements p accepts or
\* rejects without raising
EachFiltered(object) ==
    /\ \E p \in Predicates : object.lens = EachTraversal \o FilteringPrism(p)
    /\ object.state.t = "list"
    /\ \A k \in 1..Len(object.state.items) :
          Apply(Filter(object), object.state.items[k]).exc = "none"

\* C26: set and modify through an optic whose first step is a prism with no
\* focus return the state as it is; through each_ then filter_(p) they
\* return a list of the same length in which exactly the elements that
\* satisfied p are replaced, whether or not the new elements satisfy p
C26_PrismFrame ==
    (last.op \in {"set", "modify"} /\ last.st = PyNone /\ Bound(Self)) =>
       /\ (Self.lens # <<>> /\ Absent(Self.lens[1], Self.state)) =>
              /\ last.kind = "value"
              /\ last.ret = Self.state
       /\ (/\ EachFiltered(Self)
           /\ \A k \in 1..Len(Self.state.items) :
                 Satisfies(Filter(Self), Self.state.items[k]) =>
                    Replacement(Self.state.items[k]).exc = "none") =>
              /\ last.kind = "value"
              /\ last.ret.t = "list"
              /\ Len(last.ret.items) = Len(Self.state.items)
              /\ \A k \in 1..Len(Self.state.items) :
                    last.ret.items[k] =
                       IF Satisfies(Filter(Self), Self.state.items[k])
                       THEN Replacement(Self.state.items[k]).val
                       ELSE Self.state.items[k]

\* filter_(bool) was composed onto each_ bound to [0, 1], and set(0) through
\* it returned [0, 0]: the element 1 was replaced by one that fails bool
C26_Witness ==
    /\ last.op = "set"
    /\ last.self > 1
    /\ last.st = PyNone
    /\ last.v = PyInt(0)
    /\ Self.state = PyList(<<PyInt(0), PyInt(MaxInt)>>)
    /\ Self.lens = EachTraversal \o FilteringPrism(Bool)
    /\ last.kind = "value"
    /\ last.ret = PyList(<<PyInt(0), PyInt(0)>>)


(***************************************************************************)
(* C27: None, and only None, is the unbound marker.                        *)
(***************************************************************************)
\* C27: bind on an unbound accessor returns an accessor with the same optic
\* and the target as its state, which for the target None is equal to the
\* unbound accessor itself and for every other target, falsy ones
\* included, is bound; bind on a bound accessor fails with ValueError; a
\* query without a state fails with ValueError on an unbound accessor and
\* succeeds on a bound one
C27_NoneIsTheOnlyUnboundMarker ==
    /\ last.op = "bind" =>
          IF Bound(Self) THEN last.kind = "raise" /\ last.exc = "ValueError"
          ELSE /\ last.kind = "accessor"
               /\ last.made.lens = Self.lens
               /\ last.made.state = last.st
               /\ last.st = PyNone => last.made = Self /\ ~Bound(last.made)
               /\ last.st \in Targets \ {PyNone} => Bound(last.made)
    /\ (last.op \in {"get", "get_all", "set", "modify"} /\ last.st = PyNone) =>
          IF Bound(Self)
          THEN /\ last.exc # "ValueError"
               /\ last.op = "get" => last.kind = "value" /\ last.ret = Self.state
               /\ last.op = "get_all" => last.kind = "value" /\ last.ret = PyList(<<Self.state>>)
               /\ last.op = "set" => last.kind = "value" /\ last.ret = last.v
          ELSE last.kind = "raise" /\ last.exc = "ValueError"

\* the accessor bind(None) returned was kept, and get on it failed with
\* ValueError
C27_Witness ==
    /\ Len(heap) = MaxObjs
    /\ heap[MaxObjs] = heap[1]
    /\ ~Bound(heap[1])
    /\ last.op = "get"
    /\ last.self = MaxObjs
    /\ last.st = PyNone
    /\ last.kind = "raise"
    /\ last.exc = "ValueError"

\* the accessor bind('') returned was kept: get on it returns '' and a
\* second bind on it fails
C27_FalsyTargetIsBound ==
    (Len(heap) = MaxObjs /\ heap[MaxObjs].state = EmptyStr /\ last.self = MaxObjs) =>
       /\ (last.op = "get" /\ last.st = PyNone) => last.ret = EmptyStr
       /\ last.op = "bind" => last.exc = "ValueError"


(***************************************************************************)
(* C28: a query with a state is bind(state) followed by the query.         *)
(***************************************************************************)
\* the query op on the accessor self, without a state
Query(op, h, self, v, f) ==
    CASE op = "get" -> get(h, self, PyNone)
      [] op = "get_all" -> get_all(h, self, PyNone)
      [] op = "get_monoid" -> get_monoid(h, self, PyNone)
      [] op = "set" -> set(h, self, v, PyNone)
      [] op = "modify" -> modify(h, self, f, PyNone)
      [] op = "construct" -> construct(h, self, PyNone)

\* call or call_mut on the accessor self
CallQuery(op, h, m, self, method_name, kwargs) ==
    IF op = "call_mut" THEN call_mut(h, m, self, method_name, <<>>, kwargs)
    ELSE call(h, m, self, method_name, <<>>, kwargs)

\* the call l ended as the result r
SameResult(l, r) == l.kind = Kind(r) /\ l.exc = r.exc /\ l.ret = r.ret

\* the list a call_mut of sort makes of xs
SortedBy(kwargs, xs) ==
    IF kwargs.reverse # <<>> THEN Reverse(SortInts(xs)) ELSE SortInts(xs)

\* C28: a query with a state on an unbound accessor ends as the same query
\* on bind(state) and leaves the accessor as it was; with a state other
\* than None on a bound accessor it fails with ValueError, also when the
\* state is the bound one; call and call_mut do not hand the keyword state,
\* and call_mut does not hand the keyword shallow, to the method: sort is
\* called with the keyword reverse alone
C28_StateKeywordIsBind ==
    [][ /\ (last'.op \in {"get", "get_all", "get_monoid", "set", "modify", "construct"}
              /\ last'.st # PyNone) =>
            /\ heap' = heap
            /\ IF Bound(heap[last'.self])
               THEN last'.kind = "raise" /\ last'.exc = "ValueError"
               ELSE SameResult(last', Query(last'.op, bind(heap, last'.self, last'.st).heap,
                                            Len(heap) + 1, last'.v, last'.f))
        /\ (last'.op \in {"call", "call_mut"} /\ last'.kwargs.state # <<>>) =>
            /\ heap' = heap
            /\ IF Bound(heap[last'.self])
               THEN last'.kind = "raise" /\ last'.exc = "ValueError" /\ mem' = mem
               ELSE /\ SameResult(last',
                                  CallQuery(last'.op,
                                            bind(heap, last'.self, last'.st).heap, mem,
                                            Len(heap) + 1, last'.method,
                                            [last'.kwargs EXCEPT !.state = <<>>]))
                    /\ mem' = CallQuery(last'.op,
                                        bind(heap, last'.self, last'.st).heap, mem,
                                        Len(heap) + 1, last'.method,
                                        [last'.kwargs EXCEPT !.state = <<>>]).mem
        /\ (/\ last'.op = "call_mut"
            /\ last'.method = "sort"
            /\ Ref(1) \in {heap[last'.self].state, last'.st}
            /\ PyNone \in {heap[last'.self].state, last'.st}) =>
            /\ last'.kind = "value"
            /\ last'.ret.t = "ref"
            /\ last'.ret # Ref(1)
            /\ mem'[last'.ret.n].items = SortedBy(last'.kwargs, mem[1].items)
            /\ mem'[1] = mem[1]
        /\ (/\ last'.op = "call"
            /\ last'.method = "copy"
            /\ last'.kwargs.shallow = <<>>
            /\ last'.kwargs.reverse = <<>>
            /\ Ref(1) \in {heap[last'.self].state, last'.st}
            /\ PyNone \in {heap[last'.self].state, last'.st}) =>
            /\ last'.kind = "value"
            /\ last'.ret.t = "ref"
            /\ mem'[last'.ret.n].items = mem[1].items ]_vars

\* call_mut('sort', state=x, shallow=True) on the unbound accessor, x the
\* list [1, 0]: a sorted copy is returned and the accessor is still unbound
C28_Witness ==
    /\ last.op = "call_mut"
    /\ last.method = "sort"
    /\ ~Bound(Self)
    /\ last.kwargs = [NoKwargs EXCEPT !.state = <<Ref(1)>>, !.shallow = <<PyBool(TRUE)>>]
    /\ mem[1].items = <<PyInt(MaxInt), PyInt(0)>>
    /\ last.kind = "value"
    /\ last.ret.t = "ref"
    /\ mem[last.ret.n].items = <<PyInt(0), PyInt(MaxInt)>>

\* call consumes the keyword state only: a keyword shallow given to call is
\* one more keyword of the method, which list.sort and list.copy reject
C28_CallHandsShallowToTheMethod ==
    (/\ last.op = "call"
     /\ last.kwargs.shallow # <<>>
     /\ Ref(1) \in {Self.state, last.st}
     /\ PyNone \in {Self.state, last.st}) =>
       last.kind = "raise" /\ last.exc = "TypeError"


(***************************************************************************)
(* C29: operators and calls on an unbound accessor.                        *)
(***************************************************************************)
\* the attribute name is call_X or call_mut_X
IsCallShortcut(name) == ~endswith(name, Chars("_")) /\ startswith(name, Chars("call_"))

\* C29: on an unbound accessor every operator, call, call_mut and every
\* function read as call_X or call_mut_X fails with ValueError when no state
\* is given, also `a == b` and `a != b` for two unbound accessors; reading
\* call_X or call_mut_X returns a function and raises nothing
C29_UnboundCallsFail ==
    /\ (last.op \in ModelledDunders /\ ~Bound(Self)) =>
          last.kind = "raise" /\ last.exc = "ValueError"
    /\ (last.op \in {"call", "call_mut"} /\ ~Bound(Self) /\ last.kwargs.state = <<>>) =>
          last.kind = "raise" /\ last.exc = "ValueError"
    /\ (last.op = "caller" /\ ~Bound(Self) /\ last.kwstate = <<>>) =>
          last.kind = "raise" /\ last.exc = "ValueError"
    /\ (last.op = "__getattr__" /\ IsCallShortcut(last.name)) =>
          last.kind = "value" /\ last.ret.t = "function"

\* a == b for two unbound accessors a and b failed with ValueError
C29_Witness ==
    /\ last.op = "__eq__"
    /\ last.self = 1
    /\ last.v = PyTuple(<<LensObject(MaxObjs)>>)
    /\ ~Bound(heap[1])
    /\ ~Bound(heap[MaxObjs])
    /\ last.kind = "raise"
    /\ last.exc = "ValueError"

\* a call_X function of an unbound accessor called with a state succeeds
C29_ShortcutWithState ==
    /\ last.op = "caller"
    /\ ~Bound(Self)
    /\ last.kwstate # <<>>
    /\ last.kind = "value"


(***************************************************************************)
(* C30: the descriptor protocol.                                           *)
(***************************************************************************)
\* C30: reading an accessor through the class returns that very accessor
\* and makes no new one; reading an unbound accessor through an instance
\* returns a new accessor with the instance as state and the same optic;
\* reading a bound accessor through an instance fails with ValueError; no
\* read changes an accessor there is
C30_DescriptorBinds ==
    [][ last'.op = "__get__" =>
          /\ \A i \in 1..Len(heap) : heap'[i] = heap[i]
          /\ IF last'.st = PyNone
             THEN /\ last'.kind = "accessor"
                  /\ last'.res = last'.self
                  /\ last'.made = heap[last'.self]
                  /\ Len(heap') = Len(heap)
             ELSE IF Bound(heap[last'.self])
             THEN last'.kind = "raise" /\ last'.exc = "ValueError" /\ Len(heap') = Len(heap)
             ELSE /\ last'.kind = "accessor"
                  /\ last'.res = Len(heap) + 1
                  /\ last'.made.state = last'.st
                  /\ last'.made.lens = heap[last'.self].lens
                  /\ Bound(last'.made) ]_vars

\* the unbound accessor lens() was read through an instance that is falsy,
\* the accessor returned was kept, and it is bound to the instance
C30_Witness ==
    /\ last.op = "__get__"
    /\ Len(heap) = MaxObjs
    /\ last.self = 1
    /\ last.obj = MaxObjs
    /\ ~Bound(heap[1])
    /\ last.st = PyList(<<>>)
    /\ heap[MaxObjs].state = PyList(<<>>)
    /\ heap[MaxObjs].lens = heap[1].lens

====
